---- MODULE Spec2Model ----
(***************************************************************************)
(* Retrieval-and-citation engine of the NoteBookLm clone: the chat request *)
(* handler (api/chat/route.ts), QueryAnalyzer, DocumentSearchService,      *)
(* CitationService, StreamHandler and the embedding cache (query-cache).   *)
(* Texts are TLA+ strings handled character by character, so includes(),   *)
(* split(), toLowerCase() and the regular expressions are computed, not    *)
(* assumed.                                                                *)
(***************************************************************************)
EXTENDS Integers, Sequences, FiniteSets, TLC

(***************************************************************************)
(* Strings                                                                 *)
(***************************************************************************)
LowerChars == {"a","b","c","d","e","f","g","h","i","j","k","l","m",
               "n","o","p","q","r","s","t","u","v","w","x","y","z"}
UpperChars == {"A","B","C","D","E","F","G","H","I","J","K","L","M",
               "N","O","P","Q","R","S","T","U","V","W","X","Y","Z"}
DigitChars == {"0","1","2","3","4","5","6","7","8","9"}
WordChars  == LowerChars \cup UpperChars \cup DigitChars \cup {"_"}
SpaceChars == {" ", "\n", "\t"}

\* s.charAt(i), 1-based
CharAt(s, i) == SubSeq(s, i, i)

\* String.prototype.toLowerCase, one character
LowerChar(c) ==
  CASE c = "A" -> "a" [] c = "B" -> "b" [] c = "C" -> "c" [] c = "D" -> "d"
    [] c = "E" -> "e" [] c = "F" -> "f" [] c = "G" -> "g" [] c = "H" -> "h"
    [] c = "I" -> "i" [] c = "J" -> "j" [] c = "K" -> "k" [] c = "L" -> "l"
    [] c = "M" -> "m" [] c = "N" -> "n" [] c = "O" -> "o" [] c = "P" -> "p"
    [] c = "Q" -> "q" [] c = "R" -> "r" [] c = "S" -> "s" [] c = "T" -> "t"
    [] c = "U" -> "u" [] c = "V" -> "v" [] c = "W" -> "w" [] c = "X" -> "x"
    [] c = "Y" -> "y" [] c = "Z" -> "z" [] OTHER -> c

\* toLowerCase, by halves
RECURSIVE ToLowerCase(_)
ToLowerCase(s) ==
  IF Len(s) = 0 THEN ""
  ELSE IF Len(s) = 1 THEN LowerChar(s)
  ELSE ToLowerCase(SubSeq(s, 1, Len(s) \div 2))
       \o ToLowerCase(SubSeq(s, Len(s) \div 2 + 1, Len(s)))

MinOf(set) == CHOOSE x \in set : \A y \in set : x <= y
MaxOf(set) == CHOOSE x \in set : \A y \in set : x >= y

\* s.startsWith(t, i-1): t occurs in s at 1-based position i
StartsAt(s, t, i) ==
  /\ i >= 1
  /\ i + Len(t) - 1 <= Len(s)
  /\ SubSeq(s, i, i + Len(t) - 1) = t

\* s.includes(t)
Includes(s, t) == \E i \in 1..(Len(s) - Len(t) + 1) : StartsAt(s, t, i)

\* s.indexOf(t) searched from 1-based position from; 0 when absent
IndexOfFrom(s, t, from) ==
  LET hits == {i \in from..(Len(s) - Len(t) + 1) : StartsAt(s, t, i)}
  IN IF hits = {} THEN 0 ELSE MinOf(hits)

\* end (exclusive) of the maximal run of characters of class cls starting at i
RunEnd(s, i, cls) ==
  LET stops == {j \in i..Len(s) : CharAt(s, j) \notin cls}
  IN IF stops = {} THEN (IF i > Len(s) THEN i ELSE Len(s) + 1) ELSE MinOf(stops)

\* parseInt of a string of decimal digits
DigitValue(c) ==
  CASE c = "0" -> 0 [] c = "1" -> 1 [] c = "2" -> 2 [] c = "3" -> 3
    [] c = "4" -> 4 [] c = "5" -> 5 [] c = "6" -> 6 [] c = "7" -> 7
    [] c = "8" -> 8 [] c = "9" -> 9

RECURSIVE ParseDigits(_, _)
ParseDigits(s, acc) ==
  IF Len(s) = 0 THEN acc
  ELSE ParseDigits(Tail(s), 10 * acc + DigitValue(Head(s)))

\* the maximal runs of characters of class cls in s from position i on, in order
RECURSIVE Runs(_, _, _)
Runs(s, i, cls) ==
  LET starts == {j \in i..Len(s) : CharAt(s, j) \in cls}
      b == MinOf(starts)
      e == RunEnd(s, b, cls)
  IN IF starts = {} THEN <<>>
     ELSE <<SubSeq(s, b, e - 1)>> \o Runs(s, e, cls)

\* s.split(/\s+/) for a trimmed, non-empty s: its whitespace-separated words
SplitWords(s) == Runs(s, 1, {CharAt(s, i) : i \in 1..Len(s)} \ SpaceChars)

Range(seq) == {seq[i] : i \in 1..Len(seq)}

Min2(a, b) == IF a <= b THEN a ELSE b
Max2(a, b) == IF a >= b THEN a ELSE b

\* String.prototype.trim
TrimLeft(s) == SubSeq(s, RunEnd(s, 1, SpaceChars), Len(s))

TrimRight(s) ==
  LET keep == {j \in 1..Len(s) : CharAt(s, j) \notin SpaceChars}
  IN IF keep = {} THEN "" ELSE SubSeq(s, 1, MaxOf(keep))

Trim(s) == TrimRight(TrimLeft(s))

\* \b at 1-based position i (between character i-1 and character i)
IsWordAt(s, i) == i >= 1 /\ i <= Len(s) /\ CharAt(s, i) \in WordChars
WordBoundary(s, i) == IsWordAt(s, i - 1) # IsWordAt(s, i)

Null == "<null>"

(***************************************************************************)
(* QueryAnalyzer: the pure functions of query-analyzer.ts                  *)
(***************************************************************************)
\* queryIntents: each pattern is an alternation of literals, tested with /i
queryIntents == <<
  [intent |-> "SPECIFIC_CONTENT",
   literals |-> {"what is in", "what is on", "what is about",
                 "what does it say in", "what does it say on", "what does it say about",
                 "what says in", "what says on", "what says about",
                 "content of", "what's in"}],
  [intent |-> "VISUAL_DESCRIPTION",
   literals |-> {"describe", "show", "picture", "image", "looks like", "appears", "visual"}],
  [intent |-> "FACTUAL_LOOKUP",
   literals |-> {"who", "what", "when", "where", "how much", "how many", "which"}],
  [intent |-> "COMPARISON",
   literals |-> {"compare", "difference", "versus", "vs", "between", "similar"}],
  [intent |-> "SUMMARY",
   literals |-> {"summarize", "overview", "main points", "key", "summary"}],
  [intent |-> "FOLLOW_UP",
   literals |-> {"he", "she", "it", "that", "this", "they"}] >>

\* pattern.test(query) for the pattern of entry k
IntentMatches(k, query) ==
  \E lit \in queryIntents[k].literals : Includes(ToLowerCase(query), lit)

RECURSIVE DetectIntentFrom(_, _)
DetectIntentFrom(k, query) ==
  IF k > Len(queryIntents) THEN "GENERAL"
  ELSE IF IntentMatches(k, query) THEN queryIntents[k].intent
  ELSE DetectIntentFrom(k + 1, query)

\* variant of detectIntent that returns the last category that matches (used to
\* test C20)
detectIntentLast(query) ==
  LET matching == {k \in 1..Len(queryIntents) : IntentMatches(k, query)}
  IN IF matching = {} THEN "GENERAL" ELSE queryIntents[MaxOf(matching)].intent

detectIntent(query) == DetectIntentFrom(1, query)

\* /what is in ([^?]+)/i : the trimmed group of the leftmost match, or Null
getSpecificFileName(message) ==
  LET low  == ToLowerCase(message)
      lit  == "what is in "
      hits == {i \in 1..Len(low) : /\ StartsAt(low, lit, i)
                                   /\ i + Len(lit) <= Len(low)
                                   /\ CharAt(low, i + Len(lit)) # "?"}
      at   == CHOOSE i \in hits : \A j \in hits : i <= j
      from == at + Len(lit)
      stop == RunEnd(message, from, {CharAt(message, i) : i \in 1..Len(message)} \ {"?"})
  IN IF hits = {} THEN Null ELSE Trim(SubSeq(message, from, stop - 1))

\* /this file|this image|latest|attached/i.test(message)
isStandaloneQuery(message) ==
  \E lit \in {"this file", "this image", "latest", "attached"} :
     Includes(ToLowerCase(message), lit)

\* concepts: /\b\w{4,}\b/g, the maximal word runs of 4 characters or more
RECURSIVE KeepLong(_)
KeepLong(ws) ==
  IF ws = <<>> THEN <<>>
  ELSE (IF Len(Head(ws)) >= 4 THEN <<Head(ws)>> ELSE <<>>) \o KeepLong(Tail(ws))

Concepts(query) == KeepLong(Runs(query, 1, WordChars))

\* numbers: /\b\d+(?:\.\d+)?\b/g, scanned from position from on
RECURSIVE NumbersFrom(_, _)
NumbersFrom(s, from) ==
  LET starts == {j \in from..Len(s) : CharAt(s, j) \in DigitChars /\ WordBoundary(s, j)}
      i  == MinOf(starts)
      e1 == RunEnd(s, i, DigitChars)
      e2 == IF e1 <= Len(s) /\ CharAt(s, e1) = "."
            THEN RunEnd(s, e1 + 1, DigitChars) ELSE e1
  IN IF starts = {} THEN <<>>
     ELSE IF e2 > e1 + 1 /\ WordBoundary(s, e2)
          THEN <<SubSeq(s, i, e2 - 1)>> \o NumbersFrom(s, e2)
          ELSE IF WordBoundary(s, e1)
               THEN <<SubSeq(s, i, e1 - 1)>> \o NumbersFrom(s, e1)
               ELSE NumbersFrom(s, i + 1)

\* end (exclusive) of [A-Z][a-z]+ at i, or 0
CapWordEnd(s, i) ==
  IF i + 1 <= Len(s) /\ CharAt(s, i) \in UpperChars /\ CharAt(s, i + 1) \in LowerChars
  THEN RunEnd(s, i + 1, LowerChars) ELSE 0

\* the ends of [A-Z][a-z]+(?:\s+[A-Z][a-z]+)* from a first word that ends at e
RECURSIVE EntityEnds(_, _)
EntityEnds(s, e) ==
  LET sp == RunEnd(s, e, SpaceChars)
      nx == IF sp > e THEN CapWordEnd(s, sp) ELSE 0
  IN {e} \cup (IF nx = 0 THEN {} ELSE EntityEnds(s, nx))

\* the ends at which the entity pattern, started at i, meets its closing \b
EntityStops(s, i) ==
  IF WordBoundary(s, i) /\ CapWordEnd(s, i) # 0
  THEN {e \in EntityEnds(s, CapWordEnd(s, i)) : WordBoundary(s, e)} ELSE {}

\* entities: /\b[A-Z][a-z]+(?:\s+[A-Z][a-z]+)*\b/g, scanned from position from on
RECURSIVE EntitiesFrom(_, _)
EntitiesFrom(s, from) ==
  LET starts == {j \in from..Len(s) : EntityStops(s, j) # {}}
      i == MinOf(starts)
      e == MaxOf(EntityStops(s, i))
  IN IF starts = {} THEN <<>>
     ELSE <<SubSeq(s, i, e - 1)>> \o EntitiesFrom(s, e)

extractSmartKeywords(query) ==
  LET entities == EntitiesFrom(query, 1)
      numbers  == NumbersFrom(query, 1)
      concepts == Concepts(query)
  IN [entities |-> entities, numbers |-> numbers, concepts |-> concepts,
      all |-> entities \o numbers \o concepts]

\* One iteration \d+\s*(?:,|\s+and\s+|&\s+)?\s* of the page-list group at i: its
\* end (exclusive), or 0. The greedy \s* before the optional separator takes
\* every space and is never given back (skipping the separator succeeds), so
\* the alternative \s+and\s+ can match only where no space precedes "and",
\* where it needs one: it never matches.
PageIterEnd(s, i) ==
  LET e1 == RunEnd(s, i, DigitChars)
      e2 == RunEnd(s, e1, SpaceChars)
      e3 == IF e2 <= Len(s) /\ CharAt(s, e2) = "," THEN e2 + 1
            ELSE IF e2 <= Len(s) /\ CharAt(s, e2) = "&"
                    /\ RunEnd(s, e2 + 1, SpaceChars) > e2 + 1
                 THEN RunEnd(s, e2 + 1, SpaceChars)
                 ELSE e2
  IN IF e1 = i THEN 0 ELSE RunEnd(s, e3, SpaceChars)

RECURSIVE PageGroupEnd(_, _)
PageGroupEnd(s, i) ==
  LET e == PageIterEnd(s, i)
  IN IF e = 0 THEN i ELSE PageGroupEnd(s, e)

\* end (exclusive) of (?:pages?|p[g.]?|on page)\s+ at i, alternatives in order,
\* each with its optional character tried first; 0 when none matches
PagePrefixEnd(s, i) ==
  LET After(e) == IF RunEnd(s, e, SpaceChars) > e THEN RunEnd(s, e, SpaceChars) ELSE 0
      try == << IF StartsAt(s, "pages", i) THEN After(i + 5) ELSE 0,
                IF StartsAt(s, "page", i) THEN After(i + 4) ELSE 0,
                IF StartsAt(s, "pg", i) \/ StartsAt(s, "p.", i) THEN After(i + 2) ELSE 0,
                IF StartsAt(s, "p", i) THEN After(i + 1) ELSE 0,
                IF StartsAt(s, "on page", i) THEN After(i + 7) ELSE 0 >>
      ok  == {k \in 1..Len(try) : try[k] # 0 /\ PageIterEnd(s, try[k]) # 0}
  IN IF ok = {} THEN 0 ELSE try[CHOOSE k \in ok : \A j \in ok : k <= j]

\* numberString.split(/(?:,|\s+and\s+|&\s+)/): the pieces between separators
RECURSIVE SplitPageList(_, _, _)
SplitPageList(s, i, from) ==
  IF i > Len(s) THEN <<SubSeq(s, from, Len(s))>>
  ELSE IF CharAt(s, i) = ","
       THEN <<SubSeq(s, from, i - 1)>> \o SplitPageList(s, i + 1, i + 1)
  ELSE IF CharAt(s, i) = "&" /\ RunEnd(s, i + 1, SpaceChars) > i + 1
       THEN <<SubSeq(s, from, i - 1)>>
            \o SplitPageList(s, RunEnd(s, i + 1, SpaceChars), RunEnd(s, i + 1, SpaceChars))
  ELSE IF CharAt(s, i) \in SpaceChars /\ StartsAt(s, "and", RunEnd(s, i, SpaceChars))
          /\ RunEnd(s, RunEnd(s, i, SpaceChars) + 3, SpaceChars) > RunEnd(s, i, SpaceChars) + 3
       THEN <<SubSeq(s, from, i - 1)>>
            \o SplitPageList(s, RunEnd(s, RunEnd(s, i, SpaceChars) + 3, SpaceChars),
                                RunEnd(s, RunEnd(s, i, SpaceChars) + 3, SpaceChars))
  ELSE SplitPageList(s, i + 1, from)

\* .map(trim).filter(nonempty).map(parseInt), then push when not yet included
RECURSIVE PushPages(_, _)
PushPages(pieces, acc) ==
  IF pieces = <<>> THEN acc
  ELSE LET t   == Trim(Head(pieces))
           num == ParseDigits(SubSeq(t, 1, RunEnd(t, 1, DigitChars) - 1), 0)
       IN PushPages(Tail(pieces),
            IF Len(t) = 0 \/ RunEnd(t, 1, DigitChars) = 1 \/ num \in Range(acc)
            THEN acc ELSE Append(acc, num))

RECURSIVE PageNumbersFrom(_, _, _)
PageNumbersFrom(s, from, acc) ==
  LET starts == {j \in from..Len(s) : PagePrefixEnd(s, j) # 0}
      g == PagePrefixEnd(s, MinOf(starts))
      e == PageGroupEnd(s, g)
  IN IF starts = {} THEN acc
     ELSE PageNumbersFrom(s, e, PushPages(SplitPageList(SubSeq(s, g, e - 1), 1, 1), acc))

\* the pattern carries /i and matches only letters, digits and separators
extractPageNumbers(message) == PageNumbersFrom(ToLowerCase(message), 1, <<>>)

(***************************************************************************)
(* The stores: documents, chunks (with their embedding) and chat_messages. *)
(* An embedding is one integer and the distance <=> of two embeddings is   *)
(* the absolute difference.                                                *)
(***************************************************************************)
Doc(id, session, file, created, url, isArray, pages, blob) ==
  [id |-> id, session_id |-> session, source_file |-> file, created_at |-> created,
   pdf_url |-> url,
   blueprint |-> [isArray |-> isArray, pages |-> pages, blob_url |-> blob]]

Chunk(content, page, doc, emb) ==
  [content |-> content, page_number |-> page, document_id |-> doc, embedding |-> emb]

\* document and chunk tables a session can hold after uploads
DocsTwo ==
  << Doc("d1", "s1", "report.pdf", 1, "blob/report.pdf", TRUE, <<1, 2, 3>>, Null),
     Doc("d2", "s1", "notes.txt", 2, Null, FALSE, <<>>, "blob/notes.txt"),
     Doc("d3", "s2", "other.pdf", 3, Null, TRUE, <<1>>, Null) >>

ChunksSmall ==
  << Chunk("Revenue grew 12% in the third quarter", 3, "d1", 2),
     Chunk("The author said \"costs fell\" last year", 1, "d1", 6),
     Chunk("Meeting notes about revenue targets", 1, "d2", 4),
     Chunk("The author said \"costs fell\" last year", 1, "d2", 9),
     Chunk("Secret plans of another session", 1, "d3", 3) >>

ChunksBig ==
  ChunksSmall \o
  << Chunk("Revenue by region table", 1, "d1", 1),
     Chunk("Costs by region table", 2, "d1", 5),
     Chunk("Outlook for revenue next year", 2, "d1", 7),
     Chunk("Risks and mitigations", 2, "d1", 8),
     Chunk("Appendix with revenue figures", 3, "d1", 10),
     Chunk("Glossary of terms", 3, "d1", 11),
     Chunk("Action items from the meeting", 1, "d2", 12),
     Chunk("", 1, "d2", 13),
     Chunk("Budget notes", 2, "d2", 14) >>

Stores ==
  { [documents |-> SubSeq(DocsTwo, 3, 3), chunks |-> SubSeq(ChunksSmall, 5, 5)],
    [documents |-> DocsTwo, chunks |-> ChunksSmall],
    [documents |-> DocsTwo, chunks |-> ChunksBig] }

\* keep the members of a sequence that are in a set, in order
RECURSIVE Keep(_, _)
Keep(seq, set) ==
  IF seq = <<>> THEN <<>>
  ELSE (IF Head(seq) \in set THEN <<Head(seq)>> ELSE <<>>) \o Keep(Tail(seq), set)

Take(seq, n) == SubSeq(seq, 1, Min2(Len(seq), n))

Abs(n) == IF n < 0 THEN -n ELSE n

\* the columns a chunk query selects: content, page_number, document_id
Row(c) == [content |-> c.content, page_number |-> c.page_number,
           document_id |-> c.document_id]

RECURSIVE Rows(_)
Rows(cs) == IF cs = <<>> THEN <<>> ELSE <<Row(Head(cs))>> \o Rows(Tail(cs))

\* SELECT id FROM documents WHERE session_id = s ORDER BY created_at DESC LIMIT 1
LatestDocRows(docs, s) ==
  LET mine == {i \in 1..Len(docs) : docs[i].session_id = s}
  IN IF mine = {} THEN <<>>
     ELSE <<docs[CHOOSE i \in mine :
                   \A j \in mine : \/ docs[i].created_at > docs[j].created_at
                                   \/ docs[i].created_at = docs[j].created_at /\ i <= j]>>

\* variant of Scoped that forgets the document restriction (used to test C6)
ScopedToSession(docs, cs, s, whereDoc) ==
  {c \in Range(cs) :
     \E i \in 1..Len(docs) : docs[i].id = c.document_id /\ docs[i].session_id = s}

\* FROM chunks c JOIN documents d ON c.document_id = d.id
\* WHERE d.session_id = s [AND d.id = whereDoc]
Scoped(docs, cs, s, whereDoc) ==
  {c \in Range(cs) :
     \E i \in 1..Len(docs) : /\ docs[i].id = c.document_id
                             /\ docs[i].session_id = s
                             /\ (whereDoc # Null => docs[i].id = whereDoc)}

\* ... AND c.page_number IN (pageNumbers), in table order
PageQuery(docs, cs, s, whereDoc, pageNumbers) ==
  Rows(Keep(cs, {c \in Scoped(docs, cs, s, whereDoc) : c.page_number \in Range(pageNumbers)}))

\* a set of chunks ORDER BY c.embedding <=> q, ties in table order
RECURSIVE ByDistance(_, _, _)
ByDistance(cs, set, q) ==
  IF set = {} THEN <<>>
  ELSE LET Pos(c) == CHOOSE i \in 1..Len(cs) : cs[i] = c
           best == CHOOSE c \in set :
                     \A d \in set :
                        \/ Abs(c.embedding - q) < Abs(d.embedding - q)
                        \/ Abs(c.embedding - q) = Abs(d.embedding - q) /\ Pos(c) <= Pos(d)
       IN <<best>> \o ByDistance(cs, set \ {best}, q)

\* ... ORDER BY c.embedding <=> q LIMIT lim
VectorQuery(docs, cs, s, whereDoc, q, lim) ==
  Rows(Take(ByDistance(cs, Scoped(docs, cs, s, whereDoc), q), lim))

\* LIMIT 5 of keywordSearch
keywordLimit == 5

\* keywordSearch: LOWER(c.content) LIKE '%kw%' for some keyword, LIMIT 5, table order
keywordSearch(docs, cs, s, keywords, whereDoc) ==
  Rows(Take(Keep(cs, {c \in Scoped(docs, cs, s, whereDoc) :
                        \E k \in 1..Len(keywords) :
                           Includes(ToLowerCase(c.content), ToLowerCase(keywords[k]))}),
            keywordLimit))

\* LIMIT 3 of the latest-file search
latestLimit == 3

\* FROM chunks c WHERE c.document_id = docId ORDER BY c.embedding <=> q LIMIT 3
LatestDocQuery(cs, docId, q) ==
  Rows(Take(ByDistance(cs, {c \in Range(cs) : c.document_id = docId}, q), latestLimit))

\* const searchLimit = 10
searchLimit == 10

\* step 7: keep a chunk when no earlier chunk has its content and page_number
RECURSIVE DedupFrom(_, _)
DedupFrom(all, i) ==
  IF i > Len(all) THEN <<>>
  ELSE (IF \E j \in 1..(i - 1) : /\ all[j].content = all[i].content
                                 /\ all[j].page_number = all[i].page_number
        THEN <<>> ELSE <<all[i]>>) \o DedupFrom(all, i + 1)

\* variant of Dedup whose key includes document_id (used to test C17)
DedupPerDocument(all) ==
  LET keep == {i \in 1..Len(all) :
                 ~\E j \in 1..(i - 1) : /\ all[j].content = all[i].content
                                        /\ all[j].page_number = all[i].page_number
                                        /\ all[j].document_id = all[i].document_id}
  IN [k \in 1..Cardinality(keep) |->
        all[CHOOSE i \in keep : Cardinality({j \in keep : j <= i}) = k]]

\* variant of Dedup that keeps the last occurrence of each key (used to test C23)
DedupKeepLast(all) ==
  LET keep == {i \in 1..Len(all) :
                 ~\E j \in (i + 1)..Len(all) : /\ all[j].content = all[i].content
                                               /\ all[j].page_number = all[i].page_number}
  IN [k \in 1..Cardinality(keep) |->
        all[CHOOSE i \in keep : Cardinality({j \in keep : j <= i}) = k]]

Dedup(all) == DedupFrom(all, 1)

\* [...new Set(retrievedChunks.map(chunk => chunk.document_id))]
RECURSIVE DocumentIds(_, _)
DocumentIds(cs, acc) ==
  IF cs = <<>> THEN acc
  ELSE DocumentIds(Tail(cs),
         IF Head(cs).document_id \in Range(acc) THEN acc
         ELSE Append(acc, Head(cs).document_id))

\* SELECT id, source_file, blueprint, pdf_url FROM documents WHERE id = docId
BlueprintRows(docs, docId) ==
  LET hit == {i \in 1..Len(docs) : docs[i].id = docId}
  IN IF hit = {} THEN <<>>
     ELSE LET d == docs[CHOOSE i \in hit : TRUE]
          IN <<[id |-> d.id, source_file |-> d.source_file,
                blueprint |-> d.blueprint, pdf_url |-> d.pdf_url]>>

\* blueprintResults.flatMap(result => result.rows)
RECURSIVE FlatMapRows(_, _)
FlatMapRows(docs, ids) ==
  IF ids = <<>> THEN <<>>
  ELSE BlueprintRows(docs, Head(ids)) \o FlatMapRows(docs, Tail(ids))

(***************************************************************************)
(* The embedding cache (query-cache.ts). A Map is the sequence of its      *)
(* entries in insertion order.                                             *)
(***************************************************************************)
MapHas(m, k) == \E i \in 1..Len(m) : m[i].key = k
MapGet(m, k) == m[CHOOSE i \in 1..Len(m) : m[i].key = k].value
MapKeys(m)   == {m[i].key : i \in 1..Len(m)}

\* Map.prototype.set: an existing key keeps its place
MapSet(m, k, v) ==
  IF MapHas(m, k)
  THEN [i \in 1..Len(m) |-> IF m[i].key = k THEN [key |-> k, value |-> v] ELSE m[i]]
  ELSE Append(m, [key |-> k, value |-> v])

\* Map.prototype.delete: the other entries keep their order
MapDelete(m, k) ==
  IF MapHas(m, k)
  THEN SubSeq(m, 1, (CHOOSE i \in 1..Len(m) : m[i].key = k) - 1)
       \o SubSeq(m, (CHOOSE i \in 1..Len(m) : m[i].key = k) + 1, Len(m))
  ELSE m

\* const CACHE_TTL = 5 * 60 * 1000
CACHE_TTL == 5 * 60 * 1000

\* if (queryCache.size > 100)
cacheMaxSize == 100

\* variant of getCachedEmbeddingSync whose entries live for the TTL inclusive
\* (used to test C10)
getCachedEmbeddingSyncInclusive(qc, ts, query, t) ==
  IF MapHas(qc, query) /\ MapHas(ts, query) /\ t - MapGet(ts, query) <= 5 * 60 * 1000
  THEN [hit |-> TRUE, value |-> MapGet(qc, query), queryCache |-> qc,
        cacheTimestamps |-> ts]
  ELSE [hit |-> FALSE, value |-> 0, queryCache |-> MapDelete(qc, query),
        cacheTimestamps |-> MapDelete(ts, query)]

\* getCachedEmbeddingSync: the vector or Null, and the maps after the clean-up.
\* A stored vector is an array, always truthy; a timestamp of 0 is falsy.
getCachedEmbeddingSync(qc, ts, query, t) ==
  LET cached == MapHas(qc, query)
      fresh  == /\ cached
                /\ MapHas(ts, query)
                /\ MapGet(ts, query) # 0
                /\ t - MapGet(ts, query) < CACHE_TTL
  IN IF fresh THEN [hit |-> TRUE, value |-> MapGet(qc, query), queryCache |-> qc,
                    cacheTimestamps |-> ts]
     ELSE IF cached
          THEN [hit |-> FALSE, value |-> 0, queryCache |-> MapDelete(qc, query),
                cacheTimestamps |-> MapDelete(ts, query)]
          ELSE [hit |-> FALSE, value |-> 0, queryCache |-> qc, cacheTimestamps |-> ts]

\* variant of OldestKey that takes the first key of the Map (used to test C11)
OldestKeyFirstInserted(ts) == ts[1].key

\* Array.from(cacheTimestamps.entries()).sort(([,a], [,b]) => a - b)[0][0]:
\* the sort is stable, so the first entry in insertion order among the oldest
OldestKey(ts) ==
  ts[CHOOSE i \in 1..Len(ts) :
       \A j \in 1..Len(ts) : \/ ts[i].value < ts[j].value
                             \/ ts[i].value = ts[j].value /\ i <= j].key

\* variant of setCachedEmbedding whose eviction leaves the timestamp of the
\* evicted entry in place (used to test C30)
setCachedEmbeddingHalfEvict(qc, ts, query, embedding, t) ==
  IF Len(MapSet(qc, query, embedding)) > cacheMaxSize
  THEN [queryCache |-> MapDelete(MapSet(qc, query, embedding),
                                 OldestKey(MapSet(ts, query, t))),
        cacheTimestamps |-> MapSet(ts, query, t)]
  ELSE [queryCache |-> MapSet(qc, query, embedding), cacheTimestamps |-> MapSet(ts, query, t)]

setCachedEmbedding(qc, ts, query, embedding, t) ==
  LET qc1 == MapSet(qc, query, embedding)
      ts1 == MapSet(ts, query, t)
  IN IF Len(qc1) > cacheMaxSize
     THEN [queryCache |-> MapDelete(qc1, OldestKey(ts1)),
           cacheTimestamps |-> MapDelete(ts1, OldestKey(ts1))]
     ELSE [queryCache |-> qc1, cacheTimestamps |-> ts1]

\* embeddingModel.embedContent(text).embedding.values when the call returns:
\* one vector per text
EmbedValues(text) == Len(text) % 16

\* getCachedEmbedding(query, embeddingModel); embedOk is whether embedContent
\* returns when it is called. threw: the call rejects; embedCalled: embedContent ran.
getCachedEmbedding(qc, ts, query, t, embedOk) ==
  LET got == getCachedEmbeddingSync(qc, ts, query, t)
      put == setCachedEmbedding(got.queryCache, got.cacheTimestamps, query,
                                EmbedValues(query), t)
  IN IF got.hit
     THEN [threw |-> FALSE, value |-> got.value, embedCalled |-> FALSE,
           queryCache |-> got.queryCache, cacheTimestamps |-> got.cacheTimestamps]
     ELSE IF embedOk
          THEN [threw |-> FALSE, value |-> EmbedValues(query), embedCalled |-> TRUE,
                queryCache |-> put.queryCache, cacheTimestamps |-> put.cacheTimestamps]
          ELSE [threw |-> TRUE, value |-> 0, embedCalled |-> TRUE,
                queryCache |-> got.queryCache, cacheTimestamps |-> got.cacheTimestamps]

(***************************************************************************)
(* analyzeQuery (query-analyzer.ts)                                        *)
(***************************************************************************)
\* The backquote cannot occur in a TLA+ string: ~ stands for it in the texts.
Fence == "~~~"

\* s.replace(/(fence)json\n|(fence)/g, ''), one match after the other
RECURSIVE StripFences(_)
StripFences(s) ==
  LET at == IndexOfFrom(s, Fence, 1)
      n  == IF StartsAt(s, Fence \o "json\n", at) THEN Len(Fence) + 5 ELSE Len(Fence)
  IN IF at = 0 THEN s
     ELSE SubSeq(s, 1, at - 1) \o StripFences(SubSeq(s, at + n, Len(s)))

\* A QueryAnalysis value: fields holds the names of the properties present;
\* a property that is absent reads as undefined (falsy), held here as FALSE / <<>>.
NoFields ==
  [type |-> "object", fields |-> {}, isComplex |-> FALSE, subQueries |-> <<>>,
   focusRecent |-> FALSE, isAboutLatestFile |-> FALSE, isImageSpecific |-> FALSE,
   shouldPrioritizeImages |-> FALSE, needsSpecificQuotes |-> FALSE,
   focusStandaloneOnly |-> FALSE]

\* what the generation model may answer to the analysis prompt
AnalysisTexts ==
  { "{\"isComplex\": false, \"focusStandaloneOnly\": true}",
    "~~~json\n{\"isComplex\": true, \"subQueries\": [\"revenue growth\", \"costs\", \"risks\"]}\n~~~",
    "{\"isComplex\": false, \"focusRecent\": true, \"isAboutLatestFile\": true, \"needsSpecificQuotes\": true}",
    "I cannot analyze this query.",
    "null",
    "42",
    "[]" }

\* JSON.parse on the texts above: the value, or a SyntaxError
JSONParse(t) ==
  CASE t = "{\"isComplex\": false, \"focusStandaloneOnly\": true}" ->
         [NoFields EXCEPT !.fields = {"isComplex", "focusStandaloneOnly"},
                          !.focusStandaloneOnly = TRUE]
    [] t = "{\"isComplex\": true, \"subQueries\": [\"revenue growth\", \"costs\", \"risks\"]}" ->
         [NoFields EXCEPT !.fields = {"isComplex", "subQueries"}, !.isComplex = TRUE,
                          !.subQueries = <<"revenue growth", "costs", "risks">>]
    [] t = "{\"isComplex\": false, \"focusRecent\": true, \"isAboutLatestFile\": true, \"needsSpecificQuotes\": true}" ->
         [NoFields EXCEPT !.fields = {"isComplex", "focusRecent", "isAboutLatestFile",
                                      "needsSpecificQuotes"},
                          !.focusRecent = TRUE, !.isAboutLatestFile = TRUE,
                          !.needsSpecificQuotes = TRUE]
    [] t = "{}"   -> NoFields
    [] t = "[]"   -> [NoFields EXCEPT !.type = "array"]
    [] t = "null" -> [NoFields EXCEPT !.type = "null"]
    [] t = "42"   -> [NoFields EXCEPT !.type = "number"]
    [] OTHER      -> [NoFields EXCEPT !.type = "SyntaxError"]

\* outcomes of visionModel.generateContent([analysisPrompt])
AnalysisResponses ==
  {[kind |-> "throw", text |-> ""], [kind |-> "none", text |-> ""]}
  \cup {[kind |-> "text", text |-> t] : t \in AnalysisTexts}

\* the try/catch of analyzeQuery: analysisResult.response?.text() || '{}', parsed
\* after the fences are stripped; { isComplex: false } when the call or the parse throws
ParsedAnalysis(resp) ==
  LET jsonResponse == IF resp.kind = "text" /\ resp.text # "" THEN resp.text ELSE "{}"
      parsed == JSONParse(Trim(StripFences(jsonResponse)))
  IN IF resp.kind = "throw" \/ parsed.type = "SyntaxError"
     THEN [NoFields EXCEPT !.fields = {"isComplex"}]
     ELSE parsed

\* analysis.focusStandaloneOnly = isStandaloneQuery throws a TypeError on null and,
\* the module being strict code, on a number
AssignThrows(analysis) == analysis.type \notin {"object", "array"}

WithStandalone(analysis, message) ==
  [analysis EXCEPT !.fields = @ \cup {"focusStandaloneOnly"},
                   !.focusStandaloneOnly = isStandaloneQuery(message)]

\* conversationHistory: chat_messages of the session ORDER BY created_at DESC LIMIT 6
RECURSIVE Reverse(_)
Reverse(seq) == IF seq = <<>> THEN <<>> ELSE Append(Reverse(Tail(seq)), Head(seq))

RECURSIVE SessionRows(_, _)
SessionRows(msgs, s) ==
  IF msgs = <<>> THEN <<>>
  ELSE (IF Head(msgs).session_id = s THEN <<Head(msgs)>> ELSE <<>>)
       \o SessionRows(Tail(msgs), s)

historyLimit == 6

HistoryRows(msgs, s) == Take(Reverse(SessionRows(msgs, s)), historyLimit)

\* String.prototype.toUpperCase on a role
UpperRole(r) == IF r = "user" THEN "USER" ELSE IF r = "assistant" THEN "ASSISTANT" ELSE r

RECURSIVE JoinLines(_, _)
JoinLines(lines, sep) ==
  IF lines = <<>> THEN ""
  ELSE IF Len(lines) = 1 THEN Head(lines)
  ELSE Head(lines) \o sep \o JoinLines(Tail(lines), sep)

\* rows.reverse() reverses the array in place and returns it: the map and the
\* later rows[0] both read the reversed array
ConversationOf(rows) ==
  LET reversed == Reverse(rows)
  IN [recentConversation |->
        IF Len(rows) > 0
        THEN JoinLines([i \in 1..Len(reversed) |->
                          UpperRole(reversed[i].role) \o ": " \o reversed[i].content], "\n")
        ELSE "",
      lastAssistantMessage |->
        IF Len(rows) > 0 /\ reversed[1].role = "assistant" THEN reversed[1].content
        ELSE ""]

\* SELECT content FROM chunks WHERE document_id = id LIMIT 3
recentChunkLimit == 3

RecentFileContent(doc, cs) ==
  LET mine == Take(Keep(cs, {c \in Range(cs) : c.document_id = doc.id}), recentChunkLimit)
  IN "The user most recently uploaded '" \o doc.source_file
     \o "'. The first few chunks are:\n"
     \o JoinLines([i \in 1..Len(mine) |-> mine[i].content], "\n---\n")

(***************************************************************************)
(* CitationService (citation-service.ts): markers, context, scoring        *)
(***************************************************************************)
\* s.substring(a, b) with 0-based a and b, clamped to the string
Substring(s, a, b) ==
  LET lo == Max2(0, Min2(Min2(a, b), Len(s)))
      hi == Max2(0, Min2(Max2(a, b), Len(s)))
  IN SubSeq(s, lo + 1, hi)

\* s.indexOf(t) and s.lastIndexOf(t), 0-based, -1 when absent
IndexOf(s, t) == IndexOfFrom(s, t, 1) - 1

LastIndexOf(s, t) ==
  LET hits == {i \in 1..(Len(s) - Len(t) + 1) : StartsAt(s, t, i)}
  IN IF hits = {} THEN -1 ELSE (CHOOSE i \in hits : \A j \in hits : i >= j) - 1

\* s.split(sep) for a non-empty separator
RECURSIVE SplitOn(_, _)
SplitOn(s, sep) ==
  LET at == IndexOf(s, sep)
  IN IF at = -1 THEN <<s>>
     ELSE <<Substring(s, 0, at)>> \o SplitOn(Substring(s, at + Len(sep), Len(s)), sep)

MarkerOpen == "[SOURCE: "

\* /\[SOURCE: ([^\]]+)\]/g : the matches from 0-based position from on, each with
\* its index, its length and its group
RECURSIVE Markers(_, _)
Markers(s, from) ==
  LET hits == {i \in (from + 1)..Len(s) :
                 /\ StartsAt(s, MarkerOpen, i)
                 /\ IndexOfFrom(s, "]", i + Len(MarkerOpen)) > i + Len(MarkerOpen)}
      i    == CHOOSE x \in hits : \A y \in hits : x <= y
      close == IndexOfFrom(s, "]", i + Len(MarkerOpen))
  IN IF hits = {} THEN <<>>
     ELSE <<[index |-> i - 1, length |-> close - i + 1,
             info |-> SubSeq(s, i + Len(MarkerOpen), close - 1)]>>
          \o Markers(s, close)

\* s.replace(/\[SOURCE: [^\]]+\]/g, '')
RECURSIVE StripMarkers(_)
StripMarkers(s) ==
  LET ms == Markers(s, 0)
  IN IF ms = <<>> THEN s
     ELSE Substring(s, 0, ms[1].index)
          \o StripMarkers(Substring(s, ms[1].index + ms[1].length, Len(s)))

\* parseInt(t): leading whitespace, then decimal digits; NaN without a digit
ParseInt(t) ==
  LET u == TrimLeft(t)
      e == RunEnd(u, 1, DigitChars)
  IN IF e = 1 THEN [isNumber |-> FALSE, n |-> 0]
     ELSE [isNumber |-> TRUE, n |-> ParseDigits(SubSeq(u, 1, e - 1), 0)]

\* s.replace('Page ', ''): the first occurrence
ReplaceFirst(s, t) ==
  LET at == IndexOf(s, t)
  IN IF at = -1 THEN s ELSE Substring(s, 0, at) \o Substring(s, at + Len(t), Len(s))

\* parts[0], and parseInt of the first part that starts with 'Page '; a page that
\* is undefined or NaN has isNumber FALSE
MarkerSource(info) ==
  LET parts == SplitOn(info, ", ")
      pages == {k \in 1..Len(parts) : StartsAt(parts[k], "Page ", 1)}
      first == CHOOSE k \in pages : \A j \in pages : k <= j
  IN [sourceFile |-> parts[1],
      page |-> IF pages = {} THEN [isNumber |-> FALSE, n |-> 0]
               ELSE ParseInt(ReplaceFirst(parts[first], "Page "))]

\* a number in a condition: NaN, undefined and 0 are falsy
TruthyPage(page) == page.isNumber /\ page.n # 0

sentenceWindow == 200
fallbackWindow == 100
minSnippetLength == 20

Max4(a, b, c, d) == Max2(Max2(a, b), Max2(c, d))
Min3(a, b, c) == Min2(Min2(a, b), c)

\* sentenceStart and sentenceEnd around the marker m of finalAnswer
SentenceStartIn(beforeText, index) ==
  Max4(LastIndexOf(beforeText, ". "), LastIndexOf(beforeText, "\n"),
       LastIndexOf(beforeText, ": "), Max2(0, index - sentenceWindow))

EndAt(at, ifFound, otherwise) == IF at # -1 THEN ifFound + at ELSE otherwise

SentenceEndIn(afterText, stop, length) ==
  Min3(EndAt(IndexOf(afterText, ". "), stop + 1, length),
       EndAt(IndexOf(afterText, "\n"), stop, length),
       stop + sentenceWindow)

\* substring(a, b).replace(markers, '').trim()
CleanSlice(finalAnswer, a, b) == Trim(StripMarkers(Substring(finalAnswer, a, b)))

\* the second attempt at a snippet, when the first is shorter than 20
SnippetOr(first, finalAnswer, index, stop) ==
  IF Len(first) < minSnippetLength
  THEN CleanSlice(finalAnswer, Max2(0, index - fallbackWindow),
                  Min2(Len(finalAnswer), stop + fallbackWindow))
  ELSE first

\* contextSnippet of the marker m in finalAnswer
ContextSnippet(finalAnswer, m) ==
  SnippetOr(CleanSlice(finalAnswer,
                       SentenceStartIn(Substring(finalAnswer, 0, m.index), m.index),
                       SentenceEndIn(Substring(finalAnswer, m.index + m.length, Len(finalAnswer)),
                                     m.index + m.length, Len(finalAnswer))),
            finalAnswer, m.index, m.index + m.length)

\* contextSnippet.toLowerCase().split(/\s+/).filter(w => w.length > 3)
RECURSIVE KeepLonger(_, _)
KeepLonger(ws, n) ==
  IF ws = <<>> THEN <<>>
  ELSE (IF Len(Head(ws)) > n THEN <<Head(ws)>> ELSE <<>>) \o KeepLonger(Tail(ws), n)

ContextWords(contextSnippet) == KeepLonger(SplitWords(ToLowerCase(contextSnippet)), 3)

RECURSIVE SumOver(_, _)
SumOver(set, f) ==
  IF set = {} THEN 0
  ELSE LET x == CHOOSE y \in set : TRUE IN f[x] + SumOver(set \ {x}, f)

phraseWeight == 15
wordWeight == 2

\* score of one chunk: 15 * len for every run of len = 5, 4, 3 context words found
\* in the chunk, 2 * length for every context word found in it
PhraseScore(chunkContent, contextWords, len, i) ==
  IF Includes(chunkContent, JoinLines(SubSeq(contextWords, i, i + len - 1), " "))
  THEN len * phraseWeight ELSE 0

WordScore(chunkContent, word) ==
  IF Includes(chunkContent, word) THEN Len(word) * wordWeight ELSE 0

ScoreOf(chunkContent, contextWords, starts) ==
  SumOver(starts, [p \in starts |-> PhraseScore(chunkContent, contextWords, p[1], p[2])])
  + SumOver(DOMAIN contextWords,
            [i \in DOMAIN contextWords |-> WordScore(chunkContent, contextWords[i])])

PhraseStarts(n) == {p \in (3..5) \X (1..n) : p[2] + p[1] - 1 <= n}

ScoreWords(chunkContent, contextWords) ==
  ScoreOf(chunkContent, contextWords, PhraseStarts(Len(contextWords)))

Score(content, contextSnippet) ==
  ScoreWords(ToLowerCase(content), ContextWords(contextSnippet))

\* blueprints.find(bp => bp.id === id): its index, 0 when there is none
FindBlueprint(blueprints, id) ==
  LET hits == {i \in 1..Len(blueprints) : blueprints[i].id = id}
  IN IF hits = {} THEN 0 ELSE CHOOSE i \in hits : \A j \in hits : i <= j

\* sourceChunks: the retrieved chunks of the marker's file (and page, when truthy)
IsSourceChunk(chunk, blueprints, src) ==
  LET b == FindBlueprint(blueprints, chunk.document_id)
  IN /\ b # 0
     /\ blueprints[b].source_file = src.sourceFile
     /\ (~TruthyPage(src.page) \/ chunk.page_number = src.page.n)

RECURSIVE SourceChunks(_, _, _)
SourceChunks(retrievedChunks, blueprints, src) ==
  IF retrievedChunks = <<>> THEN <<>>
  ELSE (IF IsSourceChunk(Head(retrievedChunks), blueprints, src)
        THEN <<Head(retrievedChunks)>> ELSE <<>>)
       \o SourceChunks(Tail(retrievedChunks), blueprints, src)

\* variant of Better that also takes a chunk of equal score (used to test C26)
BetterOrEqual(content, score, bestScore) == content # "" /\ score >= bestScore

\* one turn of the loop over sourceChunks: the chunk is skipped without content,
\* and becomes bestSourceDoc when its score is greater than bestScore
Better(content, score, bestScore) == content # "" /\ score > bestScore

RECURSIVE BestFrom(_, _, _, _, _)
BestStep(sourceChunks, contextSnippet, i, best, bestScore, score) ==
  IF Better(sourceChunks[i].content, score, bestScore)
  THEN BestFrom(sourceChunks, contextSnippet, i + 1, i, score)
  ELSE BestFrom(sourceChunks, contextSnippet, i + 1, best, bestScore)

\* the loop over sourceChunks: index of bestSourceDoc, 0 while it is null
BestFrom(sourceChunks, contextSnippet, i, best, bestScore) ==
  IF i > Len(sourceChunks) THEN best
  ELSE BestStep(sourceChunks, contextSnippet, i, best, bestScore,
                Score(sourceChunks[i].content, contextSnippet))

\* sourceDoc: bestSourceDoc || sourceChunks[0] || null, as an index into sourceChunks
\* variant of OrFirst without the fall back on sourceChunks[0] (used to test C15)
OrFirstNone(best, n) == best

OrFirst(best, n) == IF best # 0 THEN best ELSE IF n > 0 THEN 1 ELSE 0

SourceDocIndex(sourceChunks, contextSnippet) ==
  OrFirst(BestFrom(sourceChunks, contextSnippet, 1, 0, 0), Len(sourceChunks))

\* blueprint?.pdf_url || (non-array blueprint).blob_url || 'placeholder'
BlobUrl(bp) ==
  IF bp.pdf_url # Null /\ bp.pdf_url # "" THEN bp.pdf_url
  ELSE IF ~bp.blueprint.isArray /\ bp.blueprint.blob_url # Null
          /\ bp.blueprint.blob_url # ""
       THEN bp.blueprint.blob_url
       ELSE "placeholder"

\* sourceDoc.page_number || pageNumber
PageOr(page_number, pageNumber) ==
  IF page_number # 0 THEN [isNumber |-> TRUE, n |-> page_number] ELSE pageNumber

\* the page of an array blueprint with that page number, 0 when there is none
PageBlueprint(bp, page) ==
  IF bp.blueprint.isArray /\ page.isNumber /\ page.n \in Range(bp.blueprint.pages)
  THEN page.n ELSE 0

(***************************************************************************)
(* CitationService: the structure of a chunk's text, its highlight phrases *)
(* and the highlighted HTML                                                *)
(***************************************************************************)
POETRY_MAX_LINE_WORDS == 12
PROSE_DOMINANCE_PERCENT == 80
PHRASE_EXTRACTION_COUNT == <<3, 6>>
PHRASE_WORD_COUNT == <<3, 8>>

QuoteChars == {"\"", "'"}

\* s.split(/\s+/).length: one more than the number of whitespace runs
SplitCount(s) ==
  Cardinality({i \in 1..Len(s) : /\ CharAt(s, i) \in SpaceChars
                                 /\ (i = 1 \/ CharAt(s, i - 1) \notin SpaceChars)}) + 1

IsNonBlank(line) == Len(Trim(line)) > 0

\* text.split('\n').filter(line => line.trim().length > 0)
NonBlankLines(text) == SelectSeq(SplitOn(text, "\n"), IsNonBlank)

BulletChars == DigitChars \cup {"*", "-", "+", "."}

\* /^\s*[\*\-\d+\.]\s/.test(line) || /^\s{4,}/.test(line)
IsStructuredLine(line) ==
  \/ /\ RunEnd(line, 1, SpaceChars) + 1 <= Len(line)
     /\ CharAt(line, RunEnd(line, 1, SpaceChars)) \in BulletChars
     /\ CharAt(line, RunEnd(line, 1, SpaceChars) + 1) \in SpaceChars
  \/ RunEnd(line, 1, SpaceChars) >= 5

\* structuredLines.length > lines.length * 0.3
IsStructuredText(text) ==
  10 * Len(SelectSeq(NonBlankLines(text), IsStructuredLine)) > 3 * Len(NonBlankLines(text))

SpeechVerbs == {"said", "asked", "yelled", "whispered", "declared", "announced",
                "shouted", "replied", "responded"}

\* /\b(lit)\b/.test(low) for a literal made of word characters
HasWord(low, lit) ==
  \E i \in 1..(Len(low) - Len(lit) + 1) :
    StartsAt(low, lit, i) /\ WordBoundary(low, i) /\ WordBoundary(low, i + Len(lit))

\* hasQuotes && hasSpeechVerbs
IsDialogue(text) ==
  /\ \E i \in 1..Len(text) : CharAt(text, i) \in QuoteChars
  /\ \E verb \in SpeechVerbs : HasWord(ToLowerCase(text), verb)

\* line.trim().split(/\s+/).length <= POETRY_MAX_LINE_WORDS
IsShortLine(line) == SplitCount(Trim(line)) <= POETRY_MAX_LINE_WORDS

\* /\n\s*\n/.test(text)
HasStanzaBreaks(text) ==
  \E i \in 1..Len(text) :
    /\ CharAt(text, i) = "\n"
    /\ IndexOfFrom(text, "\n", i + 1) # 0
    /\ RunEnd(text, i + 1, SpaceChars) > IndexOfFrom(text, "\n", i + 1)

\* lines[0] && lines[0].split(/\s+/).length <= 4 && !lines[0].endsWith('.')
HasPoetryTitle(first) ==
  Len(first) > 0 /\ SplitCount(first) <= 4 /\ CharAt(first, Len(first)) # "."

PoetryOf(text, lines) ==
  \/ 2 * Len(SelectSeq(lines, IsShortLine)) > Len(lines)
  \/ HasStanzaBreaks(text)
  \/ HasPoetryTitle(lines[1])

\* lines.length > 2 and one of the three signs of a poem
IsPoetry(text) == Len(NonBlankLines(text)) > 2 /\ PoetryOf(text, NonBlankLines(text))

\* the next quote character after position i, 0 when there is none
NextQuote(text, i) ==
  LET qs == {j \in (i + 1)..Len(text) : CharAt(text, j) \in QuoteChars}
  IN IF qs = {} THEN 0 ELSE MinOf(qs)

\* text.match(/["']([^"']{100,})["']/g)
HasLongQuote(text) ==
  \E i \in 1..Len(text) :
    /\ CharAt(text, i) \in QuoteChars
    /\ NextQuote(text, i) - i - 1 >= 100

\* avgWordsPerLine < 8 && lines.length > 2, with totalWords = text.split(/\s+/).length
HasVerseStructure(text) ==
  SplitCount(text) < 8 * Len(NonBlankLines(text)) /\ Len(NonBlankLines(text)) > 2

\* the starts of the matches of /["'].*?["']/ : a quote whose next quote is on
\* the same line
QuotedStarts(text) ==
  {i \in 1..Len(text) :
     /\ CharAt(text, i) \in QuoteChars
     /\ NextQuote(text, i) # 0
     /\ ~Includes(SubSeq(text, i + 1, NextQuote(text, i) - 1), "\n")}

\* text.replace(/["'].*?["']/g, '')
RECURSIVE StripQuotedAt(_, _)
StripQuotedAt(text, starts) ==
  IF starts = {} THEN text
  ELSE SubSeq(text, 1, MinOf(starts) - 1)
       \o StripQuotedAt(SubSeq(text, NextQuote(text, MinOf(starts)) + 1, Len(text)),
                        QuotedStarts(SubSeq(text, NextQuote(text, MinOf(starts)) + 1, Len(text))))

StripQuoted(text) == StripQuotedAt(text, QuotedStarts(text))

\* proseWords / totalWords >= PROSE_DOMINANCE_THRESHOLD
IsProseDominant(text) ==
  100 * SplitCount(StripQuoted(text)) >= PROSE_DOMINANCE_PERCENT * SplitCount(text)

FullHighlight(reason) == [type |-> "FULL_HIGHLIGHT", reason |-> reason]
PhraseHighlight(reason) == [type |-> "PHRASE_HIGHLIGHT", reason |-> reason]

\* variant of analyzeTextStructure that tests the dominance of prose before the
\* dialogue (used to test C16)
analyzeTextStructureProseFirst(text) ==
  IF IsStructuredText(text) THEN FullHighlight("structured_text")
  ELSE IF IsProseDominant(text) THEN PhraseHighlight("prose_dominant")
  ELSE IF IsDialogue(text) THEN FullHighlight("dialogue")
  ELSE IF IsPoetry(text) THEN FullHighlight("poetry")
  ELSE IF HasLongQuote(text) THEN FullHighlight("long_quote")
  ELSE IF HasVerseStructure(text) THEN FullHighlight("verse_structure")
  ELSE PhraseHighlight("regular_prose")

analyzeTextStructure(text) ==
  IF IsStructuredText(text) THEN FullHighlight("structured_text")
  ELSE IF IsDialogue(text) THEN FullHighlight("dialogue")
  ELSE IF IsPoetry(text) THEN FullHighlight("poetry")
  ELSE IF HasLongQuote(text) THEN FullHighlight("long_quote")
  ELSE IF HasVerseStructure(text) THEN FullHighlight("verse_structure")
  ELSE IF IsProseDominant(text) THEN PhraseHighlight("prose_dominant")
  ELSE PhraseHighlight("regular_prose")

\* aiResponse.split('|').map(p => p.trim()).filter(p => p.length > 0)
TrimAll(parts) == [i \in 1..Len(parts) |-> Trim(parts[i])]

AiPhrases(aiResponse) == SelectSeq(TrimAll(SplitOn(aiResponse, "|")), IsNonBlank)

\* isValidLength && existsInText && phrase.length > 10
IsValidPhrase(text, phrase) ==
  /\ SplitCount(phrase) >= PHRASE_WORD_COUNT[1]
  /\ SplitCount(phrase) <= PHRASE_WORD_COUNT[2]
  /\ Includes(ToLowerCase(text), ToLowerCase(phrase))
  /\ Len(phrase) > 10

\* the catch block: words of the context longer than 4 that occur in the text
ContextFallback(text, context) ==
  Take(SelectSeq(SplitWords(context),
                 LAMBDA w : Len(w) > 4 /\ Includes(ToLowerCase(text), ToLowerCase(w))),
       PHRASE_EXTRACTION_COUNT[1])

\* validPhrases.slice(0, PHRASE_EXTRACTION_COUNT[1]) of the model's text
ValidPhrases(text, aiResponse) ==
  Take(SelectSeq(AiPhrases(aiResponse), LAMBDA p : IsValidPhrase(text, p)),
       PHRASE_EXTRACTION_COUNT[2])

\* extractContextualPhrases(text, context) when the model behaves as resp: it
\* has no generateContent ("unavailable"), the call rejects or response.text()
\* throws ("throw"), the result has no response ("none"), or it has a text
extractContextualPhrases(text, context, resp) ==
  IF resp.kind \in {"unavailable", "throw"}
  THEN [threw |-> FALSE, phrases |-> ContextFallback(text, context)]
  ELSE [threw |-> FALSE,
        phrases |-> ValidPhrases(text, IF resp.kind = "text" THEN resp.text ELSE "")]

MarkOpen == "<mark class=\"bg-muted text-foreground font-semibold rounded px-1 py-0.5\">"
MarkClose == "</mark>"

\* the starts, from position from on, of the matches of the escaped phrase with
\* the flags gi, between \b when bounded
PhraseHits(s, low, phrase, bounded, from) ==
  {i \in from..(Len(s) - Len(phrase) + 1) :
     /\ StartsAt(low, ToLowerCase(phrase), i)
     /\ bounded => (WordBoundary(s, i) /\ WordBoundary(s, i + Len(phrase)))}

\* the replacement of the match at position at, and of those after it
RECURSIVE MarkFrom(_, _, _, _, _)
MarkAt(s, low, phrase, bounded, from, at) ==
  SubSeq(s, from, at - 1) \o MarkOpen \o SubSeq(s, at, at + Len(phrase) - 1) \o MarkClose
  \o MarkFrom(s, low, phrase, bounded, at + Len(phrase))

\* s.replace(regex, '<mark ...>$1</mark>') from position from on
MarkFrom(s, low, phrase, bounded, from) ==
  IF Len(phrase) = 0 \/ PhraseHits(s, low, phrase, bounded, from) = {}
  THEN SubSeq(s, from, Len(s))
  ELSE MarkAt(s, low, phrase, bounded, from, MinOf(PhraseHits(s, low, phrase, bounded, from)))

MarkPhrase(s, phrase, bounded) == MarkFrom(s, ToLowerCase(s), phrase, bounded, 1)

\* the phrases marked one after the other, each in the result of the one before
RECURSIVE MarkAll(_, _, _)
MarkAll(s, phrases, alwaysBounded) ==
  IF phrases = <<>> THEN s
  ELSE MarkAll(MarkPhrase(s, Head(phrases),
                          alwaysBounded \/ SplitCount(Head(phrases)) <= 3),
               Tail(phrases), alwaysBounded)

\* phrases.sort((a, b) => b.length - a.length): longest first, stable
RECURSIVE SortByLength(_)
LongestFirst(phrases, at) ==
  <<phrases[at]>>
  \o SortByLength(SubSeq(phrases, 1, at - 1) \o SubSeq(phrases, at + 1, Len(phrases)))

SortByLength(phrases) ==
  IF phrases = <<>> THEN <<>>
  ELSE LongestFirst(phrases,
         MinOf({i \in 1..Len(phrases) :
                  \A j \in 1..Len(phrases) : Len(phrases[i]) >= Len(phrases[j])}))

IsLineStart(s, p) == p = 1 \/ (p > 1 /\ CharAt(s, p - 1) = "\n")

\* the starts of the matches of /\*\*(.*?)\*\*/ from position from on
BoldHits(s, from) ==
  {i \in from..Len(s) :
     /\ StartsAt(s, "**", i)
     /\ IndexOfFrom(s, "**", i + 2) # 0
     /\ ~Includes(SubSeq(s, i + 2, IndexOfFrom(s, "**", i + 2) - 1), "\n")}

RECURSIVE BoldFrom(_, _)
BoldAt(s, from, at, close) ==
  SubSeq(s, from, at - 1) \o "<strong class=\"font-semibold text-foreground\">"
  \o SubSeq(s, at + 2, close - 1) \o "</strong>" \o BoldFrom(s, close + 2)

\* .replace(/\*\*(.*?)\*\*/g, '<strong class="font-semibold text-foreground">$1</strong>')
BoldFrom(s, from) ==
  IF BoldHits(s, from) = {} THEN SubSeq(s, from, Len(s))
  ELSE BoldAt(s, from, MinOf(BoldHits(s, from)),
              IndexOfFrom(s, "**", MinOf(BoldHits(s, from)) + 2))

\* the starts of the matches of /^(\d+\.)\s/m from position from on
NumberHits(s, from) ==
  {p \in from..Len(s) :
     /\ IsLineStart(s, p)
     /\ RunEnd(s, p, DigitChars) > p
     /\ RunEnd(s, p, DigitChars) + 1 <= Len(s)
     /\ CharAt(s, RunEnd(s, p, DigitChars)) = "."
     /\ CharAt(s, RunEnd(s, p, DigitChars) + 1) \in SpaceChars}

RECURSIVE NumberFrom(_, _)
NumberAt(s, from, at, dot) ==
  SubSeq(s, from, at - 1) \o "<span class=\"font-medium\">" \o SubSeq(s, at, dot)
  \o "</span> " \o NumberFrom(s, dot + 2)

\* .replace(/^(\d+\.)\s/gm, '<span class="font-medium">$1</span> ')
NumberFrom(s, from) ==
  IF NumberHits(s, from) = {} THEN SubSeq(s, from, Len(s))
  ELSE NumberAt(s, from, MinOf(NumberHits(s, from)),
                RunEnd(s, MinOf(NumberHits(s, from)), DigitChars))

\* the bullet character U+2022 that replaces a leading dash, written in ASCII
Bullet == "(bullet)"

\* the starts of the matches of /^\s*-\s/m from position from on
DashHits(s, from) ==
  {p \in from..Len(s) :
     /\ IsLineStart(s, p)
     /\ RunEnd(s, p, SpaceChars) + 1 <= Len(s)
     /\ CharAt(s, RunEnd(s, p, SpaceChars)) = "-"
     /\ CharAt(s, RunEnd(s, p, SpaceChars) + 1) \in SpaceChars}

RECURSIVE DashFrom(_, _)
DashAt(s, from, at, dash) ==
  SubSeq(s, from, at - 1) \o Bullet \o " " \o DashFrom(s, dash + 2)

\* .replace(/^\s*-\s/gm, '<bullet> ')
DashFrom(s, from) ==
  IF DashHits(s, from) = {} THEN SubSeq(s, from, Len(s))
  ELSE DashAt(s, from, MinOf(DashHits(s, from)),
              RunEnd(s, MinOf(DashHits(s, from)), SpaceChars))

\* the light rendering of markdown that precedes the highlighting
RenderMarkdown(content) ==
  JoinLines(SplitOn(DashFrom(NumberFrom(BoldFrom(content, 1), 1), 1), "\n"), "<br/>")

\* isFullHighlight of applyHighlighting
IsFullHighlight(content, phrases, analysisResult) ==
  \/ analysisResult.type = "FULL_HIGHLIGHT"
  \/ /\ Len(phrases) = 1
     /\ 10 * Len(Trim(phrases[1])) > 8 * Len(Trim(content))

applyHighlighting(content, phrases, analysisResult) ==
  IF IsFullHighlight(content, phrases, analysisResult)
  THEN MarkOpen \o RenderMarkdown(content) \o MarkClose
  ELSE MarkAll(RenderMarkdown(content), SortByLength(phrases), FALSE)

\* variant of Citation that quotes the answer instead of the chunk (used to test C2)
CitationOfSnippet(sourceFile, page, contextSnippet, sourceDoc, bp, index, phrases) ==
  [source_file |-> sourceFile,
   page_number |-> page,
   content_snippet |-> contextSnippet,
   blob_url |-> "placeholder",
   chunk_id |-> sourceDoc.document_id,
   specific_content |-> contextSnippet,
   highlight_phrases |-> phrases,
   highlighted_html |-> contextSnippet,
   citation_index |-> index,
   page_blueprint |-> 0]

\* highlightPhrases: the whole text for FULL_HIGHLIGHT, else what
\* extractContextualPhrases resolves to when the model behaves as resp
HighlightPhrases(content, contextSnippet, resp) ==
  IF analyzeTextStructure(content).type = "FULL_HIGHLIGHT" THEN <<Trim(content)>>
  ELSE extractContextualPhrases(content, contextSnippet, resp).phrases

\* highlightPhrases after applyHighlighting: its sort is in place
SortedInPlace(content, phrases) ==
  IF IsFullHighlight(content, phrases, analyzeTextStructure(content)) THEN phrases
  ELSE SortByLength(phrases)

\* the object pushed onto citations, without citation_id (a time and a random
\* number)
Citation(sourceFile, page, contextSnippet, sourceDoc, bp, index, phrases) ==
  [source_file |-> sourceFile,
   page_number |-> page,
   content_snippet |-> contextSnippet,
   blob_url |-> BlobUrl(bp),
   chunk_id |-> sourceDoc.document_id,
   specific_content |-> sourceDoc.content,
   highlight_phrases |-> SortedInPlace(sourceDoc.content, phrases),
   highlighted_html |-> applyHighlighting(sourceDoc.content, phrases,
                                          analyzeTextStructure(sourceDoc.content)),
   citation_index |-> index,
   page_blueprint |-> PageBlueprint(bp, page)]

\* if (sourceDoc) { ... citations.push(...) }, as a sequence of 0 or 1 element
PushFor(src, contextSnippet, sourceChunks, k, blueprints, index, resp) ==
  IF k = 0 THEN <<>>
  ELSE <<Citation(src.sourceFile, PageOr(sourceChunks[k].page_number, src.page),
                  contextSnippet, sourceChunks[k],
                  blueprints[FindBlueprint(blueprints, sourceChunks[k].document_id)],
                  index,
                  HighlightPhrases(sourceChunks[k].content, contextSnippet, resp))>>

PickFor(src, contextSnippet, sourceChunks, blueprints, index, resp) ==
  PushFor(src, contextSnippet, sourceChunks, SourceDocIndex(sourceChunks, contextSnippet),
          blueprints, index, resp)

FilterFor(src, contextSnippet, retrievedChunks, blueprints, index, resp) ==
  PickFor(src, contextSnippet, SourceChunks(retrievedChunks, blueprints, src),
          blueprints, index, resp)

\* the body of the while loop for marker m; index is citations.length at the
\* push, resp is how the phrase model behaves if this citation asks it
CitationFor(finalAnswer, m, retrievedChunks, blueprints, index, resp) ==
  FilterFor(MarkerSource(m.info), ContextSnippet(finalAnswer, m),
            retrievedChunks, blueprints, index, resp)

\* the behaviour of the phrase model for the citation pushed at index
RespFor(phraseResps, index) == phraseResps[(index % Len(phraseResps)) + 1]

\* the while loop of extractCitations over the markers from the k-th on
RECURSIVE CitationsFrom(_, _, _, _, _, _)
CitationsFrom(finalAnswer, ms, retrievedChunks, blueprints, citations, phraseResps) ==
  IF ms = <<>> THEN citations
  ELSE CitationsFrom(finalAnswer, Tail(ms), retrievedChunks, blueprints,
         citations \o CitationFor(finalAnswer, Head(ms), retrievedChunks, blueprints,
                                  Len(citations), RespFor(phraseResps, Len(citations))),
         phraseResps)

\* extractCitations(finalAnswer, retrievedChunks, blueprints) when the phrase
\* model behaves as phraseResps, a non-empty sequence taken in turn
extractCitations(finalAnswer, retrievedChunks, blueprints, phraseResps) ==
  CitationsFrom(finalAnswer, Markers(finalAnswer, 0), retrievedChunks, blueprints, <<>>,
                phraseResps)

\* variant of SourceMap that numbers the files from the last one seen (used to
\* test C13)
RECURSIVE SourceMapLatestFirst(_, _)
SourceMapLatestFirst(citations, acc) ==
  IF citations = <<>> THEN acc
  ELSE SourceMapLatestFirst(Tail(citations),
         IF Head(citations).source_file \in Range(acc) THEN acc
         ELSE <<Head(citations).source_file>> \o acc)

\* sourceMap of processResponse: the files of the citations in first-seen order;
\* the number of a file is its position
RECURSIVE SourceMap(_, _)
SourceMap(citations, acc) ==
  IF citations = <<>> THEN acc
  ELSE SourceMap(Tail(citations),
         IF Head(citations).source_file \in Range(acc) THEN acc
         ELSE Append(acc, Head(citations).source_file))

SourceNumber(sourceMap, file) ==
  LET hits == {i \in 1..Len(sourceMap) : sourceMap[i] = file}
  IN IF hits = {} THEN 1 ELSE CHOOSE i \in hits : TRUE

\* variant of ReplaceMarkers that never advances the counter (used to test C14)
RECURSIVE ReplaceMarkersSharedIds(_, _, _)
ReplaceMarkersSharedIds(s, sourceMap, k) ==
  LET ms == Markers(s, 0)
      m  == ms[1]
  IN IF ms = <<>> THEN s
     ELSE Substring(s, 0, m.index)
          \o "<sup data-citation-instance=\"" \o ToString(k) \o "\">["
          \o ToString(SourceNumber(sourceMap, SplitOn(m.info, ", ")[1])) \o "]</sup>"
          \o ReplaceMarkersSharedIds(Substring(s, m.index + m.length, Len(s)), sourceMap, k)

\* the replacement of every marker by a numbered superscript, instance ids from k on
RECURSIVE ReplaceMarkers(_, _, _)
ReplaceMarkers(s, sourceMap, k) ==
  LET ms == Markers(s, 0)
      m  == ms[1]
  IN IF ms = <<>> THEN s
     ELSE Substring(s, 0, m.index)
          \o "<sup data-citation-instance=\"" \o ToString(k) \o "\">["
          \o ToString(SourceNumber(sourceMap, SplitOn(m.info, ", ")[1])) \o "]</sup>"
          \o ReplaceMarkers(Substring(s, m.index + m.length, Len(s)), sourceMap, k + 1)

\* the second citations.forEach: every highlight phrase of every citation is
\* wrapped in the answer, between \b
RECURSIVE MarkCitations(_, _)
MarkCitations(s, citations) ==
  IF citations = <<>> THEN s
  ELSE MarkCitations(MarkAll(s, Head(citations).highlight_phrases, TRUE), Tail(citations))

processResponse(finalAnswer, citations) ==
  MarkCitations(ReplaceMarkers(finalAnswer, SourceMap(citations, <<>>), 0), citations)

(***************************************************************************)
(* The chat request handler (api/chat/route.ts, POST) and searchDocuments  *)
(* (document-search.ts): one action per awaited call, with the code that   *)
(* runs synchronously after it.                                            *)
(***************************************************************************)
VARIABLES
  documents,        \* table documents
  chunks,           \* table chunks
  chat_messages,    \* table chat_messages
  queryCache,       \* Map query -> embedding
  cacheTimestamps,  \* Map query -> Date.now() of the set
  now,              \* Date.now()
  message,          \* the request body's message
  pc,               \* where the handler of the request stands
  local,            \* the handler's and searchDocuments' local variables
  stream,           \* what controller.enqueue received, in order
  closed,           \* controller.close() was called
  trace             \* history: the external calls made and how they ended

vars == <<documents, chunks, chat_messages, queryCache, cacheTimestamps, now,
          message, pc, local, stream, closed, trace>>

sessionId == "s1"

Messages ==
  { "who is the author",
    "What is on page 2 of this file?",
    "Summarize Revenue on pages 1, 2, 3",
    "what is in the latest report" }

\* what the generation model may answer to the final prompt
Answers ==
  { "Revenue grew [SOURCE: report.pdf, Page 3]",
    "The author said costs fell [SOURCE: notes.txt]. Revenue targets [SOURCE: missing.pdf] were set [SOURCE: report.pdf]",
    "Nothing in the documents covers this." }

\* how the phrase model may behave during extractCitations
PhraseResponses ==
  { [kind |-> "throw", text |-> ""],
    [kind |-> "text", text |-> "notes about revenue|revenue grew 12%|about revenue targets today"] }

GenerateResponses ==
  {[kind |-> "throw", text |-> ""], [kind |-> "none", text |-> ""]}
  \cup {[kind |-> "text", text |-> t] : t \in Answers}

Thinking(step) == [type |-> "thinking", step |-> step]
ErrorEvent(error) == [type |-> "error", error |-> error]
ResponseEvent(response, citations, searchSteps, isComplex) ==
  [type |-> "response", response |-> response, citations |-> citations,
   searchSteps |-> searchSteps, isComplex |-> isComplex]

NoLocals ==
  [history |-> [recentConversation |-> "", lastAssistantMessage |-> ""],
   recentFileContent |-> "",
   recentFile |-> <<>>,
   analysis |-> NoFields,
   smartKeywords |-> <<>>,
   pageNumbers |-> <<>>,
   searchSteps |-> <<>>,
   whereDoc |-> Null,
   searchQueries |-> <<>>,
   qi |-> 1,
   queryEmbedding |-> 0,
   latestDocId |-> Null,
   allChunks |-> <<>>,
   retrievedChunks |-> <<>>,
   blueprints |-> <<>>,
   finalAnswer |-> "",
   citations |-> <<>>,
   processedAnswer |-> ""]

NoTrace ==
  [calls |-> <<>>,          \* the awaited external calls: what, on what, returned or threw
   analysisResp |-> [kind |-> "pending", text |-> ""],  \* the model's answer to the analysis prompt
   analysis |-> "pending",  \* analyzeQuery: pending, returned or threw
   search |-> "pending",    \* searchDocuments: pending, returned or rejected
   bpFailed |-> {},         \* the documents whose blueprint fetch rejected
   bpFetched |-> {},        \* the documents whose blueprint fetch returned
   rows |-> [pages |-> <<>>, semantic |-> <<>>, keyword |-> <<>>, latest |-> <<>>],
                            \* the rows each search strategy returned, in order
   vector |-> <<>>,         \* the similarity searches sent: their query and LIMIT
   thrown |-> FALSE]        \* the catch block of the handler ran

Called(tr, op, arg, ok) ==
  [tr EXCEPT !.calls = Append(@, [op |-> op, arg |-> arg, ok |-> ok])]

\* the rows a query of a search strategy returned
Returned(tr, strategy, rows) == [tr EXCEPT !.rows[strategy] = @ \o rows]

\* a similarity search was sent for query with LIMIT lim
Searched(tr, query, lim) == [tr EXCEPT !.vector = Append(@, [query |-> query, limit |-> lim])]

\* a state of the embedding cache left by earlier requests: nothing, or an entry
\* for the text stored at time at
CacheWith(text, at) ==
  [queryCache |-> <<[key |-> text, value |-> EmbedValues(text)]>>,
   cacheTimestamps |-> <<[key |-> text, value |-> at]>>]

\* the clock at the start of the request
StartTime == CACHE_TTL + 10

Init ==
  /\ \E st \in Stores : documents = st.documents /\ chunks = st.chunks
  /\ chat_messages = <<>>
  /\ message \in Messages
  /\ now = StartTime
  /\ \E c \in { [queryCache |-> <<>>, cacheTimestamps |-> <<>>],
                CacheWith(message, StartTime - 1),
                CacheWith(message, StartTime - CACHE_TTL) } :
        queryCache = c.queryCache /\ cacheTimestamps = c.cacheTimestamps
  /\ pc = "start"
  /\ local = NoLocals
  /\ stream = <<>>
  /\ closed = FALSE
  /\ trace = NoTrace

\* variant of Caught that closes the stream without an event (used to test C1)
CaughtUnreported(l, tr) ==
  /\ pc' = "done"
  /\ local' = l
  /\ stream' = stream
  /\ closed' = TRUE
  /\ trace' = [tr EXCEPT !.thrown = TRUE]

\* the catch block of the handler: sendError('Internal server error'), close()
Caught(l, tr) ==
  /\ pc' = "done"
  /\ local' = l
  /\ stream' = Append(stream, ErrorEvent("Internal server error"))
  /\ closed' = TRUE
  /\ trace' = [tr EXCEPT !.thrown = TRUE]

\* the handler goes on to the next awaited call
Goto(p, l, events, tr) ==
  /\ pc' = p
  /\ local' = l
  /\ stream' = stream \o events
  /\ closed' = closed
  /\ trace' = tr

storeVars == <<documents, chunks>>
cacheVars == <<queryCache, cacheTimestamps>>

\* start(controller) up to the first await: the first thinking step
Start ==
  /\ pc = "start"
  /\ Goto("ctx_history", local, <<Thinking("Analyzing query and context...")>>, trace)
  /\ UNCHANGED <<storeVars, chat_messages, cacheVars, now, message>>

\* getConversationContext: the history query, whose failure .catch turns into no rows
CtxHistory ==
  /\ pc = "ctx_history"
  /\ \/ Goto("ctx_file",
             [local EXCEPT !.history = ConversationOf(HistoryRows(chat_messages, sessionId))],
             <<>>, Called(trace, "sql", "history", TRUE))
     \/ Goto("ctx_file", [local EXCEPT !.history = ConversationOf(<<>>)],
             <<>>, Called(trace, "sql", "history", FALSE))
  /\ UNCHANGED <<storeVars, chat_messages, cacheVars, now, message>>

\* getConversationContext: the most recent document of the session; a failure of
\* this query is not caught in analyzeQuery
CtxRecentFile ==
  /\ pc = "ctx_file"
  /\ \/ LET rows == LatestDocRows(documents, sessionId)
        IN Goto(IF Len(rows) > 0 THEN "ctx_chunks" ELSE "analyze",
                [local EXCEPT !.recentFile = rows],
                <<>>, Called(trace, "sql", "recentFile", TRUE))
     \/ Caught(local, [Called(trace, "sql", "recentFile", FALSE) EXCEPT !.analysis = "threw"])
  /\ UNCHANGED <<storeVars, chat_messages, cacheVars, now, message>>

\* getConversationContext: the first chunks of that document
CtxChunks ==
  /\ pc = "ctx_chunks"
  /\ \/ Goto("analyze",
             [local EXCEPT !.recentFileContent = RecentFileContent(local.recentFile[1], chunks)],
             <<>>, Called(trace, "sql", "recentChunks", TRUE))
     \/ Caught(local, [Called(trace, "sql", "recentChunks", FALSE) EXCEPT !.analysis = "threw"])
  /\ UNCHANGED <<storeVars, chat_messages, cacheVars, now, message>>

\* searchQueries of searchDocuments
SearchQueries(analysis, msg) ==
  IF analysis.isComplex /\ "subQueries" \in analysis.fields /\ Len(analysis.subQueries) > 0
  THEN analysis.subQueries ELSE <<msg>>

\* the thinking steps the handler sends between analyzeQuery and searchDocuments
FocusSteps(analysis, msg) ==
  LET specificFileName == getSpecificFileName(msg)
      intent == detectIntent(msg)
  IN IF \/ analysis.focusStandaloneOnly
        \/ (specificFileName # Null /\ specificFileName # "")
        \/ intent = "VISUAL_DESCRIPTION"
        \/ analysis.isImageSpecific
        \/ analysis.shouldPrioritizeImages
     THEN <<IF specificFileName # Null /\ specificFileName # ""
            THEN "Focusing on \"" \o specificFileName \o "\"..."
            ELSE IF intent = "VISUAL_DESCRIPTION" THEN "Focusing on visual content..."
            ELSE "Focusing ONLY on the latest standalone file...">>
     ELSE IF analysis.focusRecent \/ analysis.isAboutLatestFile
          THEN <<"Focusing on the most recently uploaded file...">>
          ELSE <<>>

PlanSteps(analysis) ==
  IF analysis.isComplex /\ "subQueries" \in analysis.fields
  THEN <<"Planning multi-step search with expanded terms...">>
       \o [i \in 1..Len(analysis.subQueries) |->
             "Searching: \"" \o analysis.subQueries[i] \o "\""]
  ELSE <<"Searching with expanded terms...">>

ThinkingOf(steps) == [i \in 1..Len(steps) |-> Thinking(steps[i])]

\* first awaited call of searchDocuments
FirstSearchPc(analysis, pageNumbers) ==
  IF analysis.focusStandaloneOnly THEN "scope"
  ELSE IF Len(pageNumbers) > 0 THEN "pages"
  ELSE "embed"

\* analyzeQuery: the model call, the parse with its fallback, the assignment of
\* focusStandaloneOnly; then the handler up to the first await of searchDocuments
Analyze ==
  /\ pc = "analyze"
  /\ \E resp \in AnalysisResponses :
       LET tr0 == [Called(trace, "generate", "analysis", resp.kind # "throw")
                     EXCEPT !.analysisResp = resp]
           got == ParsedAnalysis(resp)
           an  == WithStandalone(got, message)
           pgs == extractPageNumbers(message)
           l   == [local EXCEPT !.analysis = an,
                                !.smartKeywords = extractSmartKeywords(message).all,
                                !.pageNumbers = pgs,
                                !.searchSteps = PlanSteps(an),
                                !.searchQueries = SearchQueries(an, message)]
       IN IF AssignThrows(got)
          THEN Caught(local, [tr0 EXCEPT !.analysis = "threw"])
          ELSE Goto(FirstSearchPc(an, pgs), l,
                    ThinkingOf(FocusSteps(an, message) \o PlanSteps(an)),
                    [tr0 EXCEPT !.analysis = "returned", !.search = "running"])
  /\ UNCHANGED <<storeVars, chat_messages, cacheVars, now, message>>

\* variant of SearchRejects that returns what the pool holds so far (used to test C9)
SearchReturnsPartial(tr) ==
  /\ pc' = "generate"
  /\ local' = [local EXCEPT !.retrievedChunks = Take(Dedup(local.allChunks), searchLimit)]
  /\ stream' = stream
  /\ closed' = closed
  /\ trace' = [tr EXCEPT !.search = "returned"]

\* searchDocuments rejects: the handler's catch block runs
SearchRejects(tr) == Caught(local, [tr EXCEPT !.search = "rejected"])

\* step 1: the latest document of the session, for focusStandaloneOnly
SearchScope ==
  /\ pc = "scope"
  /\ \/ LET latestDoc == LatestDocRows(documents, sessionId)
        IN Goto(IF Len(local.pageNumbers) > 0 THEN "pages" ELSE "embed",
                [local EXCEPT !.whereDoc = IF Len(latestDoc) > 0 THEN latestDoc[1].id
                                           ELSE Null],
                <<>>, Called(trace, "sql", "latestDoc", TRUE))
     \/ SearchRejects(Called(trace, "sql", "latestDoc", FALSE))
  /\ UNCHANGED <<storeVars, chat_messages, cacheVars, now, message>>

\* step 2: the page lookup
SearchPages ==
  /\ pc = "pages"
  /\ \/ Goto("embed",
             [local EXCEPT !.allChunks = @ \o PageQuery(documents, chunks, sessionId,
                                                      local.whereDoc, local.pageNumbers)],
             <<>>,
             Returned(Called(trace, "sql", "pageQuery", TRUE), "pages",
                      PageQuery(documents, chunks, sessionId, local.whereDoc,
                                local.pageNumbers)))
     \/ SearchRejects(Called(trace, "sql", "pageQuery", FALSE))
  /\ UNCHANGED <<storeVars, chat_messages, cacheVars, now, message>>

\* step 4: getCachedEmbedding of the current search query
SearchEmbed ==
  /\ pc = "embed"
  /\ \E embedOk \in BOOLEAN :
       LET query == local.searchQueries[local.qi]
           got   == getCachedEmbedding(queryCache, cacheTimestamps, query, now, embedOk)
           tr    == IF got.embedCalled THEN Called(trace, "embed", query, ~got.threw)
                    ELSE trace
       IN /\ (got.embedCalled \/ embedOk)
          /\ queryCache' = got.queryCache
          /\ cacheTimestamps' = got.cacheTimestamps
          /\ IF got.threw THEN SearchRejects(tr)
             ELSE Goto("vector", [local EXCEPT !.queryEmbedding = got.value], <<>>, tr)
  /\ UNCHANGED <<storeVars, chat_messages, now, message>>

\* Math.floor(searchLimit / searchQueries.length)
VectorLimit(n) == searchLimit \div n

\* variant of Finalize without the slice (used to test C5)
FinalizeUncut(l, tr) ==
  IF Len(Dedup(l.allChunks)) = 0
  THEN /\ pc' = "done"
       /\ local' = [l EXCEPT !.retrievedChunks = <<>>, !.blueprints = <<>>]
       /\ stream' = Append(stream, ErrorEvent("No relevant documents found"))
       /\ closed' = closed
       /\ trace' = [tr EXCEPT !.search = "returned"]
  ELSE Goto("blueprints", [l EXCEPT !.retrievedChunks = Dedup(l.allChunks)], <<>>, tr)

\* variant of Finalize that treats the empty pool as a failure (used to test C7)
FinalizeEmptyAsFailure(l, tr) ==
  IF Len(Take(Dedup(l.allChunks), searchLimit)) = 0
  THEN Caught(l, [tr EXCEPT !.search = "rejected"])
  ELSE Goto("blueprints",
            [l EXCEPT !.retrievedChunks = Take(Dedup(l.allChunks), searchLimit)], <<>>, tr)

\* the last chunk has been pushed: steps 7 and 8 up to the blueprint fetches, or
\* the empty result and the handler's 'No relevant documents found'
Finalize(l, tr) ==
  LET retrievedChunks == Take(Dedup(l.allChunks), searchLimit)
  IN IF Len(retrievedChunks) = 0
     THEN /\ pc' = "done"
          /\ local' = [l EXCEPT !.retrievedChunks = <<>>, !.blueprints = <<>>]
          /\ stream' = Append(stream, ErrorEvent("No relevant documents found"))
          /\ closed' = closed
          /\ trace' = [tr EXCEPT !.search = "returned"]
     ELSE Goto("blueprints", [l EXCEPT !.retrievedChunks = retrievedChunks], <<>>, tr)

\* after step 5
AfterKeyword(l, tr) ==
  IF l.analysis.isAboutLatestFile THEN Goto("latest_doc", l, <<>>, tr)
  ELSE Finalize(l, tr)

\* after step 4
AfterSemantic(l, tr) ==
  IF l.analysis.needsSpecificQuotes /\ Len(l.smartKeywords) > 0
  THEN Goto("keyword", l, <<>>, tr)
  ELSE AfterKeyword(l, tr)

\* step 4: the similarity search of the current search query
SearchVector ==
  /\ pc = "vector"
  /\ \/ LET rows == VectorQuery(documents, chunks, sessionId, local.whereDoc,
                                local.queryEmbedding,
                                VectorLimit(Len(local.searchQueries)))
            l == [local EXCEPT !.allChunks = @ \o rows, !.qi = @ + 1]
            tr == Returned(Searched(Called(trace, "sql", "vectorQuery", TRUE),
                                    local.searchQueries[local.qi],
                                    VectorLimit(Len(local.searchQueries))),
                           "semantic", rows)
        IN IF l.qi <= Len(l.searchQueries) THEN Goto("embed", l, <<>>, tr)
           ELSE AfterSemantic(l, tr)
     \/ SearchRejects(Searched(Called(trace, "sql", "vectorQuery", FALSE),
                               local.searchQueries[local.qi],
                               VectorLimit(Len(local.searchQueries))))
  /\ UNCHANGED <<storeVars, chat_messages, cacheVars, now, message>>

\* step 5: the keyword search
SearchKeyword ==
  /\ pc = "keyword"
  /\ \/ AfterKeyword([local EXCEPT !.allChunks =
                        @ \o keywordSearch(documents, chunks, sessionId,
                                           local.smartKeywords, local.whereDoc)],
                     Returned(Called(trace, "sql", "keywordQuery", TRUE), "keyword",
                              keywordSearch(documents, chunks, sessionId,
                                            local.smartKeywords, local.whereDoc)))
     \/ SearchRejects(Called(trace, "sql", "keywordQuery", FALSE))
  /\ UNCHANGED <<storeVars, chat_messages, cacheVars, now, message>>

\* step 6: the latest document of the session, for isAboutLatestFile
SearchLatestDoc ==
  /\ pc = "latest_doc"
  /\ \/ LET latestDoc == LatestDocRows(documents, sessionId)
            tr == Called(trace, "sql", "latestDoc", TRUE)
        IN IF Len(latestDoc) > 0
           THEN Goto("latest_embed", [local EXCEPT !.latestDocId = latestDoc[1].id], <<>>, tr)
           ELSE Finalize(local, tr)
     \/ SearchRejects(Called(trace, "sql", "latestDoc", FALSE))
  /\ UNCHANGED <<storeVars, chat_messages, cacheVars, now, message>>

\* step 6: getCachedEmbedding of the message
SearchLatestEmbed ==
  /\ pc = "latest_embed"
  /\ \E embedOk \in BOOLEAN :
       LET got == getCachedEmbedding(queryCache, cacheTimestamps, message, now, embedOk)
           tr  == IF got.embedCalled THEN Called(trace, "embed", message, ~got.threw)
                  ELSE trace
       IN /\ (got.embedCalled \/ embedOk)
          /\ queryCache' = got.queryCache
          /\ cacheTimestamps' = got.cacheTimestamps
          /\ IF got.threw THEN SearchRejects(tr)
             ELSE Goto("latest_query", [local EXCEPT !.queryEmbedding = got.value], <<>>, tr)
  /\ UNCHANGED <<storeVars, chat_messages, now, message>>

\* step 6: the closest chunks of the latest document
SearchLatestQuery ==
  /\ pc = "latest_query"
  /\ \/ Finalize([local EXCEPT !.allChunks =
                    @ \o LatestDocQuery(chunks, local.latestDocId, local.queryEmbedding)],
                 Returned(Called(trace, "sql", "latestQuery", TRUE), "latest",
                          LatestDocQuery(chunks, local.latestDocId, local.queryEmbedding)))
     \/ SearchRejects(Called(trace, "sql", "latestQuery", FALSE))
  /\ UNCHANGED <<storeVars, chat_messages, cacheVars, now, message>>

\* step 8: Promise.all of one fetch per document id: it rejects when one of them
\* rejects; searchDocuments returns and the handler sends its last thinking step
SearchBlueprints ==
  /\ pc = "blueprints"
  /\ LET documentIds == DocumentIds(local.retrievedChunks, <<>>)
     IN \E failed \in SUBSET Range(documentIds) :
          LET tr == [Called(trace, "sql", "blueprints", failed = {})
                       EXCEPT !.bpFailed = failed,
                              !.bpFetched = Range(documentIds) \ failed]
              finalStep == "Found " \o ToString(Len(local.retrievedChunks))
                           \o " relevant sources. Generating answer..."
          IN IF failed # {} THEN SearchRejects(tr)
             ELSE Goto("generate",
                       [local EXCEPT !.blueprints = FlatMapRows(documents, documentIds),
                                     !.searchSteps = Append(@, finalStep)],
                       <<Thinking(finalStep)>>,
                       [tr EXCEPT !.search = "returned"])
  /\ UNCHANGED <<storeVars, chat_messages, cacheVars, now, message>>

noAnswer == "Sorry, I could not generate a response."

\* the answer generation, then extractCitations (with its calls of the phrase
\* model) and processResponse
Generate ==
  /\ pc = "generate"
  /\ \E resp \in GenerateResponses, phraseResp \in PhraseResponses :
       LET tr == Called(trace, "generate", "answer", resp.kind # "throw")
           finalAnswer == IF resp.kind = "text" THEN resp.text ELSE noAnswer
           citations == extractCitations(finalAnswer, local.retrievedChunks, local.blueprints,
                                         <<phraseResp>>)
       IN IF resp.kind = "throw" THEN Caught(local, tr)
          ELSE Goto("insert_user",
                    [local EXCEPT !.finalAnswer = finalAnswer,
                                  !.citations = citations,
                                  !.processedAnswer = processResponse(finalAnswer, citations)],
                    <<>>, tr)
  /\ UNCHANGED <<storeVars, chat_messages, cacheVars, now, message>>

\* sendFinalResponse and close
Respond(tr) ==
  /\ pc' = "done"
  /\ local' = local
  /\ stream' = Append(stream, ResponseEvent(local.processedAnswer, local.citations,
                                            local.searchSteps, local.analysis.isComplex))
  /\ closed' = TRUE
  /\ trace' = tr

ChatRow(role, content) == [session_id |-> sessionId, role |-> role, content |-> content]

\* the insert of the user message; a failure skips the second insert
InsertUser ==
  /\ pc = "insert_user"
  /\ \/ /\ chat_messages' = Append(chat_messages, ChatRow("user", message))
        /\ Goto("insert_assistant", local, <<>>, Called(trace, "sql", "insertUser", TRUE))
     \/ /\ chat_messages' = chat_messages
        /\ Respond(Called(trace, "sql", "insertUser", FALSE))
  /\ UNCHANGED <<storeVars, cacheVars, now, message>>

\* variant of InsertAssistant whose failure reaches the outer catch (used to test C8)
InsertAssistantSurfacing ==
  /\ pc = "insert_assistant"
  /\ \/ /\ chat_messages' = Append(chat_messages, ChatRow("assistant", local.finalAnswer))
        /\ Respond(Called(trace, "sql", "insertAssistant", TRUE))
     \/ /\ chat_messages' = chat_messages
        /\ Caught(local, Called(trace, "sql", "insertAssistant", FALSE))
  /\ UNCHANGED <<storeVars, cacheVars, now, message>>

\* the insert of the assistant message
InsertAssistant ==
  /\ pc = "insert_assistant"
  /\ \/ /\ chat_messages' = Append(chat_messages, ChatRow("assistant", local.finalAnswer))
        /\ Respond(Called(trace, "sql", "insertAssistant", TRUE))
     \/ /\ chat_messages' = chat_messages
        /\ Respond(Called(trace, "sql", "insertAssistant", FALSE))
  /\ UNCHANGED <<storeVars, cacheVars, now, message>>

Next ==
  \/ Start
  \/ CtxHistory
  \/ CtxRecentFile
  \/ CtxChunks
  \/ Analyze
  \/ SearchScope
  \/ SearchPages
  \/ SearchEmbed
  \/ SearchVector
  \/ SearchKeyword
  \/ SearchLatestDoc
  \/ SearchLatestEmbed
  \/ SearchLatestQuery
  \/ SearchBlueprints
  \/ Generate
  \/ InsertUser
  \/ InsertAssistant

Spec == Init /\ [][Next]_vars

\* the places of the handler
Places ==
  {"start", "ctx_history", "ctx_file", "ctx_chunks", "analyze", "scope", "pages",
   "embed", "vector", "keyword", "latest_doc", "latest_embed", "latest_query",
   "blueprints", "generate", "insert_user", "insert_assistant", "done"}

\* the handler leaves the place where it stands: the awaited call settles and
\* the code after it runs up to the next await or the end
Settles == pc # "done" /\ pc' \in Places \ {pc}

\* the request under a runtime in which every awaited call settles
SpecLive == Spec /\ WF_pc(Settles)

(***************************************************************************)
(* The request while a PDF is uploaded into the same session: the upload   *)
(* route inserts the row of the document, then embeds and inserts its      *)
(* chunk, each between any two awaited calls of the request.               *)
(***************************************************************************)
\* the row INSERT INTO documents (source_file, session_id, blueprint) creates:
\* created_at is the time of the insert, later than that of the rows in place
UploadedDoc == Doc("d4", sessionId, "upload.pdf", 4, Null, TRUE, <<1>>, Null)

\* the chunk of the one page of its blueprint
UploadedChunk == Chunk("Uploaded page about the latest revenue", 1, "d4", 15)

HasDocument(id) == \E i \in 1..Len(documents) : documents[i].id = id

HasChunkOf(id) == \E i \in 1..Len(chunks) : chunks[i].document_id = id

\* step 2 of the upload: the master record of the document
UploadDocument ==
  /\ ~HasDocument(UploadedDoc.id)
  /\ documents' = Append(documents, UploadedDoc)
  /\ UNCHANGED <<chunks, chat_messages, cacheVars, now, message, pc, local, stream,
                 closed, trace>>

\* step 3 of the upload: the embeddings, then the inserts into chunks
UploadChunks ==
  /\ HasDocument(UploadedDoc.id)
  /\ ~HasChunkOf(UploadedDoc.id)
  /\ chunks' = Append(chunks, UploadedChunk)
  /\ UNCHANGED <<documents, chat_messages, cacheVars, now, message, pc, local, stream,
                 closed, trace>>

\* the request starts on a session that holds report.pdf and notes.txt, with
\* a message that isStandaloneQuery accepts
UploadInit ==
  /\ Init
  /\ documents = DocsTwo
  /\ chunks = ChunksSmall
  /\ isStandaloneQuery(message)

UploadNext ==
  \/ Next
  \/ UploadDocument
  \/ UploadChunks

SpecUpload == UploadInit /\ [][UploadNext]_vars

(***************************************************************************)
(* getConversationContext on its own: the chat_messages table holds the    *)
(* rows earlier requests of the session and of another session inserted,   *)
(* and the history query of a new request runs.                            *)
(***************************************************************************)
MaxHistory == 7

\* the roles of the rows of the session, oldest first: a user row for each
\* request that stored its message, an assistant row after the user row of its
\* request (requests of one session may overlap)
RoleLists ==
  UNION {{r \in [1..n -> {"user", "assistant"}] :
            \A k \in 1..n : Cardinality({i \in 1..k : r[i] = "assistant"})
                              <= Cardinality({i \in 1..k : r[i] = "user"})} :
         n \in 0..MaxHistory}

\* the table with these rows, and with a row of another session as its last row
\* when other is set
HistoryTable(roles, other) ==
  [i \in 1..Len(roles) |-> ChatRow(roles[i], "message " \o ToString(i))]
  \o (IF other THEN <<[session_id |-> "s2", role |-> "assistant", content |-> "elsewhere"]>>
      ELSE <<>>)

HistoryInit ==
  /\ documents = DocsTwo
  /\ chunks = ChunksSmall
  /\ \E roles \in RoleLists, other \in BOOLEAN : chat_messages = HistoryTable(roles, other)
  /\ queryCache = <<>>
  /\ cacheTimestamps = <<>>
  /\ now = StartTime
  /\ message \in Messages
  /\ pc = "ctx_history"
  /\ local = NoLocals
  /\ stream = <<Thinking("Analyzing query and context...")>>
  /\ closed = FALSE
  /\ trace = NoTrace

HistoryNext == CtxHistory

SpecHistory == HistoryInit /\ [][HistoryNext]_vars

(***************************************************************************)
(* The embedding cache on its own: lookups and stores of a few texts while *)
(* the clock advances, from an empty cache and from a cache at its size    *)
(* limit.                                                                  *)
(***************************************************************************)
\* how many cache calls and clock advances a behaviour holds
MaxCalls == 3
MaxTicks == 2

\* the texts looked up: one never stored before, one that is the oldest entry
\* of the full cache
CacheQueries == {"alpha", "f1"}

\* the vectors given to setCachedEmbedding directly
SetValues == {20}

\* by how much the clock advances between two calls
TickSteps == {1, CACHE_TTL - 1, CACHE_TTL}

\* when the entries of the full cache were stored: shortly before the start, in
\* insertion order, two by two in the same millisecond
FillTime(i) == StartTime - 1000 + (i \div 2)

\* a cache of n entries f1 .. fn
Filled(n) ==
  [queryCache |-> [i \in 1..n |-> [key |-> "f" \o ToString(i), value |-> i % 16]],
   cacheTimestamps |-> [i \in 1..n |-> [key |-> "f" \o ToString(i), value |-> FillTime(i)]]]

\* history: for every text of the cache, when its entry was stored and with
\* which vector; an entry leaves the history when the code removes it
StoredOf(qc, ts) ==
  [k \in MapKeys(qc) |-> [at |-> MapGet(ts, k), value |-> MapGet(qc, k)]]

StoredAfter(stored, qc, query, wrote, value, t) ==
  [k \in MapKeys(qc) |->
     IF k = query /\ wrote THEN [at |-> t, value |-> value] ELSE stored[k]]

NotStored == [at |-> 0, value |-> 0]

CacheInit ==
  /\ documents = <<>>
  /\ chunks = <<>>
  /\ chat_messages = <<>>
  /\ message = ""
  /\ pc = "cache"
  /\ local = NoLocals
  /\ stream = <<>>
  /\ closed = FALSE
  /\ now = StartTime
  /\ \E c \in {Filled(0), Filled(cacheMaxSize)} :
       /\ queryCache = c.queryCache
       /\ cacheTimestamps = c.cacheTimestamps
       /\ trace = [stored |-> StoredOf(c.queryCache, c.cacheTimestamps),
                   last |-> [op |-> "none"], calls |-> 0, ticks |-> 0]

requestVars == <<documents, chunks, chat_messages, message, pc, local, stream, closed>>

\* getCachedEmbedding(query, embeddingModel)
CacheGet ==
  /\ trace.calls < MaxCalls
  /\ \E query \in CacheQueries, embedOk \in BOOLEAN :
       LET got == getCachedEmbedding(queryCache, cacheTimestamps, query, now, embedOk)
           had == query \in DOMAIN trace.stored
       IN /\ (got.embedCalled \/ embedOk)
          /\ queryCache' = got.queryCache
          /\ cacheTimestamps' = got.cacheTimestamps
          /\ trace' = [trace EXCEPT
               !.stored = StoredAfter(@, got.queryCache, query,
                                      got.embedCalled /\ ~got.threw, got.value, now),
               !.last = [op |-> "get", query |-> query, at |-> now,
                         had |-> had,
                         before |-> IF had THEN trace.stored[query] ELSE NotStored,
                         sizeBefore |-> Len(queryCache),
                         embedCalls |-> IF got.embedCalled THEN 1 ELSE 0,
                         threw |-> got.threw,
                         value |-> got.value],
               !.calls = @ + 1]
  /\ UNCHANGED <<requestVars, now>>

\* setCachedEmbedding(query, embedding)
CacheSet ==
  /\ trace.calls < MaxCalls
  /\ \E query \in CacheQueries, embedding \in SetValues :
       LET put == setCachedEmbedding(queryCache, cacheTimestamps, query, embedding, now)
       IN /\ queryCache' = put.queryCache
          /\ cacheTimestamps' = put.cacheTimestamps
          /\ trace' = [trace EXCEPT
               !.stored = StoredAfter(@, put.queryCache, query, TRUE, embedding, now),
               !.last = [op |-> "set", query |-> query, at |-> now],
               !.calls = @ + 1]
  /\ UNCHANGED <<requestVars, now>>

\* time passes between two calls
CacheTick ==
  /\ trace.ticks < MaxTicks
  /\ \E d \in TickSteps : now' = now + d
  /\ trace' = [trace EXCEPT !.ticks = @ + 1]
  /\ UNCHANGED <<requestVars, cacheVars>>

CacheNext ==
  \/ CacheGet
  \/ CacheSet
  \/ CacheTick

SpecCache == CacheInit /\ [][CacheNext]_vars

(***************************************************************************)
(* Concurrent calls of getCachedEmbedding on the one cache of the process: *)
(* the code of a call runs without interruption up to its await of         *)
(* embedContent and again from there to its return; other calls, and the   *)
(* clock, go on in between.                                                *)
(***************************************************************************)
\* how many calls are in flight together, and how many times the clock advances
MaxRacers == 2
MaxRaceTicks == 1

\* the texts of the calls: two that were never stored and the oldest entry of
\* the full cache
RaceQueries == {"alpha", "beta", "f1"}

\* the vector an invocation of embedContent for text returns to call c
VectorOf(text, c) == [of |-> text, by |-> c]

\* a cache of n entries f1 .. fn left by earlier calls (by call 0)
RaceFilled(n) ==
  [queryCache |-> [i \in 1..n |-> [key |-> "f" \o ToString(i),
                                   value |-> VectorOf("f" \o ToString(i), 0)]],
   cacheTimestamps |-> [i \in 1..n |-> [key |-> "f" \o ToString(i), value |-> FillTime(i)]]]

NotCalled == [state |-> "idle", query |-> "", value |-> VectorOf("", 0), embedded |-> FALSE]

RaceInit ==
  /\ documents = <<>>
  /\ chunks = <<>>
  /\ chat_messages = <<>>
  /\ message = ""
  /\ pc = "race"
  /\ local = [c \in 1..MaxRacers |-> NotCalled]
  /\ stream = <<>>
  /\ closed = FALSE
  /\ now = StartTime
  /\ \E c \in {RaceFilled(0), RaceFilled(cacheMaxSize)} :
       /\ queryCache = c.queryCache
       /\ cacheTimestamps = c.cacheTimestamps
  /\ trace = [ticks |-> 0]

raceVars == <<documents, chunks, chat_messages, message, pc, stream, closed>>

\* getCachedEmbedding up to its await: the lookup with its clean-up, then the
\* return of the cached vector or the call of embedContent
RaceLookup ==
  /\ \E c \in 1..MaxRacers, query \in RaceQueries :
       LET got == getCachedEmbeddingSync(queryCache, cacheTimestamps, query, now)
       IN /\ local[c].state = "idle"
          /\ \A b \in 1..(c - 1) : local[b].state # "idle"
          /\ queryCache' = got.queryCache
          /\ cacheTimestamps' = got.cacheTimestamps
          /\ local' = [local EXCEPT ![c] =
               IF got.hit
               THEN [state |-> "resolved", query |-> query, value |-> got.value,
                     embedded |-> FALSE]
               ELSE [state |-> "awaiting", query |-> query, value |-> VectorOf("", 0),
                     embedded |-> TRUE]]
  /\ UNCHANGED <<raceVars, now, trace>>

\* embedContent resolves: setCachedEmbedding(query, embedding), return embedding
RaceEmbedded ==
  /\ \E c \in 1..MaxRacers :
       LET put == setCachedEmbedding(queryCache, cacheTimestamps, local[c].query,
                                     VectorOf(local[c].query, c), now)
       IN /\ local[c].state = "awaiting"
          /\ queryCache' = put.queryCache
          /\ cacheTimestamps' = put.cacheTimestamps
          /\ local' = [local EXCEPT ![c].state = "resolved",
                                    ![c].value = VectorOf(local[c].query, c)]
  /\ UNCHANGED <<raceVars, now, trace>>

\* embedContent rejects, and the call with it
RaceEmbedFails ==
  /\ \E c \in 1..MaxRacers :
       /\ local[c].state = "awaiting"
       /\ local' = [local EXCEPT ![c].state = "rejected"]
  /\ UNCHANGED <<raceVars, cacheVars, now, trace>>

\* time passes while calls are in flight
RaceTick ==
  /\ trace.ticks < MaxRaceTicks
  /\ \E d \in {1, CACHE_TTL} : now' = now + d
  /\ trace' = [trace EXCEPT !.ticks = @ + 1]
  /\ UNCHANGED <<raceVars, cacheVars, local>>

RaceNext ==
  \/ RaceLookup
  \/ RaceEmbedded
  \/ RaceEmbedFails
  \/ RaceTick

SpecRace == RaceInit /\ [][RaceNext]_vars

(***************************************************************************)
(* extractCitations and processResponse on their own: an answer with its   *)
(* markers, the chunks that were retrieved and the behaviour of the phrase *)
(* model are drawn, then the two functions are applied in turn.            *)
(***************************************************************************)
CiteAnswers ==
  { "The citation count rose [SOURCE: report.pdf, Page 3]",
    "Revenue grew [SOURCE: report.pdf, Page 3]. Targets were set [SOURCE: notes.txt] and revenue grew again [SOURCE: report.pdf]",
    "Targets [SOURCE: missing.pdf] were set [SOURCE: notes.txt] after revenue grew [SOURCE: report.pdf, Page 3]",
    "Weather was mild [SOURCE: notes.txt][SOURCE: notes.txt] and [SOURCE: ] stays",
    "The second item is listed [SOURCE: report.pdf, Page 2]",
    "Revenue grew in the region [SOURCE: report.pdf, Page 0]",
    "Our revenue grew [SOURCE: report.pdf]",
    "Nothing similar appears here [SOURCE: report.pdf]",
    "Nothing in the documents covers this." }

CiteChunks ==
  << Chunk("Revenue grew 12% and every citation was checked", 3, "d1", 2),
     Chunk("Meeting notes about revenue targets", 1, "d2", 4),
     Chunk("- first item\n- second item", 2, "d1", 5),
     Chunk("Revenue grew again in the region", 1, "d1", 6) >>

CitePools == {CiteChunks, Reverse(CiteChunks), SubSeq(CiteChunks, 2, 2), <<>>}

CitePhraseResps ==
  { <<[kind |-> "throw", text |-> ""]>>,
    <<[kind |-> "text", text |-> "revenue grew 12%|notes about revenue|every citation was checked"]>>,
    <<[kind |-> "none", text |-> ""]>>,
    <<[kind |-> "unavailable", text |-> ""], [kind |-> "text", text |-> "about revenue targets"]>> }

\* the documents whose row was gone when searchDocuments fetched the blueprints
\* (the SELECT by id returned no row)
CiteGone == {{}, {"d2"}}

CiteInit ==
  /\ documents = SubSeq(DocsTwo, 1, 2)
  /\ chunks = CiteChunks
  /\ chat_messages = <<>>
  /\ queryCache = <<>>
  /\ cacheTimestamps = <<>>
  /\ now = StartTime
  /\ message = ""
  /\ pc = "cite"
  /\ \E answer \in CiteAnswers, pool \in CitePools, resps \in CitePhraseResps,
        gone \in CiteGone :
       local = [finalAnswer |-> answer,
                retrievedChunks |-> pool,
                blueprints |-> FlatMapRows(SelectSeq(SubSeq(DocsTwo, 1, 2),
                                                     LAMBDA d : d.id \notin gone),
                                           DocumentIds(pool, <<>>)),
                phraseResps |-> resps,
                citations |-> <<>>,
                processedAnswer |-> ""]
  /\ stream = <<>>
  /\ closed = FALSE
  /\ trace = NoTrace

citeVars == <<documents, chunks, chat_messages, queryCache, cacheTimestamps, now,
              message, stream, closed, trace>>

\* const citations = await CitationService.extractCitations(...)
CiteExtract ==
  /\ pc = "cite"
  /\ pc' = "process"
  /\ local' = [local EXCEPT !.citations =
                 extractCitations(local.finalAnswer, local.retrievedChunks,
                                  local.blueprints, local.phraseResps)]
  /\ UNCHANGED citeVars

\* const processedAnswer = CitationService.processResponse(finalAnswer, citations)
CiteProcess ==
  /\ pc = "process"
  /\ pc' = "rendered"
  /\ local' = [local EXCEPT !.processedAnswer =
                 processResponse(local.finalAnswer, local.citations)]
  /\ UNCHANGED citeVars

CiteNext ==
  \/ CiteExtract
  \/ CiteProcess

SpecCite == CiteInit /\ [][CiteNext]_vars

(***************************************************************************)
(* The pure functions on texts on their own: a chunk text, a citation      *)
(* context and a behaviour of the phrase model are drawn, and the text is  *)
(* classified, given its highlight phrases and highlighted, once and once  *)
(* more on the result; or a query is drawn and its intent detected.        *)
(***************************************************************************)
LongQuoted ==
  "The sign read 'all visitors must report to the front desk before entering the main hall of the old building during the week' ok"

Texts ==
  { "",
    " \n ",
    "- first item\n- second item\nplain closing line",
    "- He said 'hi' to the whole group of people",
    "She said \"go now\" and the whole team left the office early",
    "Roses are red\nviolets are blue\nsugar is sweet",
    LongQuoted,
    "one two three four five six seven eight nine ten eleven twelve thirteen.\none two three four five six seven eight nine ten eleven twelve thirteen.\nend.\nend.",
    "Meeting notes about revenue targets and the citation count of the annual report",
    "It is 'one two three four five six' ok",
    "Revenue grew 12% and every citation was checked",
    "The **big** plan\n1. first step and the revenue targets follow" }

Contexts ==
  { "Revenue targets and notes were checked",
    "The citation count rose" }

TextResps ==
  { [kind |-> "unavailable", text |-> ""],
    [kind |-> "throw", text |-> ""],
    [kind |-> "none", text |-> ""],
    [kind |-> "text", text |-> "notes about revenue | every citation was checked|annual report|the revenue targets follow|the **big** plan"],
    [kind |-> "text", text |-> "Sorry, I cannot help with that."] }

Queries ==
  { "describe the image",
    "who is the author",
    "What is in the report?",
    "compare costs and revenue",
    "summarize chapter 2",
    "see pages 2, 4 and 9",
    "is this right",
    "WHICH picture shows a summary",
    "versus",
    "" }

NoResult == [threw |-> FALSE, phrases |-> <<>>]

TextInit ==
  /\ documents = <<>>
  /\ chunks = <<>>
  /\ chat_messages = <<>>
  /\ queryCache = <<>>
  /\ cacheTimestamps = <<>>
  /\ now = StartTime
  /\ \/ /\ message = ""
        /\ pc = "text"
        /\ \E text \in Texts, context \in Contexts, resp \in TextResps :
             local = [text |-> text, context |-> context, resp |-> resp,
                      analysis |-> PhraseHighlight(""), result |-> NoResult,
                      phrases |-> <<>>, html |-> "", again |-> ""]
     \/ /\ message \in Queries
        /\ pc = "query"
        /\ local = [intent |-> ""]
  /\ stream = <<>>
  /\ closed = FALSE
  /\ trace = NoTrace

textVars == <<documents, chunks, chat_messages, queryCache, cacheTimestamps, now,
              message, stream, closed, trace>>

\* const analysisResult = this.analyzeTextStructure(sourceDoc.content || '')
TextAnalyze ==
  /\ pc = "text"
  /\ pc' = "phrases"
  /\ local' = [local EXCEPT !.analysis = analyzeTextStructure(local.text)]
  /\ UNCHANGED textVars

\* highlightPhrases = await this.extractContextualPhrases(content, contextSnippet),
\* or the whole text for FULL_HIGHLIGHT
TextPhrases ==
  /\ pc = "phrases"
  /\ pc' = "highlight"
  /\ local' = [local EXCEPT
       !.result = IF local.analysis.type = "FULL_HIGHLIGHT"
                  THEN [threw |-> FALSE, phrases |-> <<Trim(local.text)>>]
                  ELSE extractContextualPhrases(local.text, local.context, local.resp)]
  /\ UNCHANGED textVars

\* highlighted_html: this.applyHighlighting(content, highlightPhrases, analysisResult)
TextHighlight ==
  /\ pc = "highlight"
  /\ ~local.result.threw
  /\ pc' = "again"
  /\ local' = [local EXCEPT
       !.phrases = SortedInPlace(local.text, local.result.phrases),
       !.html = applyHighlighting(local.text, local.result.phrases, local.analysis)]
  /\ UNCHANGED textVars

\* applyHighlighting applied to its own result, with the same phrases
TextRehighlight ==
  /\ pc = "again"
  /\ pc' = "twice"
  /\ local' = [local EXCEPT
       !.again = applyHighlighting(local.html, local.phrases, local.analysis)]
  /\ UNCHANGED textVars

\* QueryAnalyzer.detectIntent(message)
TextIntent ==
  /\ pc = "query"
  /\ pc' = "intent"
  /\ local' = [local EXCEPT !.intent = detectIntent(message)]
  /\ UNCHANGED textVars

TextNext ==
  \/ TextAnalyze
  \/ TextPhrases
  \/ TextHighlight
  \/ TextRehighlight
  \/ TextIntent

SpecText == TextInit /\ [][TextNext]_vars

(***************************************************************************)
(* Properties of one chat request                                          *)
(***************************************************************************)
Terminal(e) == e.type \in {"response", "error"}

LastEvent == stream[Len(stream)]

\* the calls of the request that ended in a failure
FailedCalls == {i \in DOMAIN trace.calls : ~trace.calls[i].ok}

WasCalled(op, arg) ==
  \E i \in DOMAIN trace.calls : trace.calls[i].op = op /\ trace.calls[i].arg = arg

\* C1: the events of a request are thinking events followed by exactly one
\* terminal event (response or error), which is the last event, on every path
\* of the request: a terminal event is only ever the last event of an ended
\* request, and an ended request ends with one.
C1_StreamOrder ==
  /\ \A i \in DOMAIN stream : Terminal(stream[i]) => (i = Len(stream) /\ pc = "done")
  /\ pc = "done" => (Len(stream) > 0 /\ Terminal(LastEvent))

\* the answer generation threw after the search returned and thinking went out
C1_Witness ==
  /\ pc = "done"
  /\ trace.thrown
  /\ trace.search = "returned"
  /\ Len(stream) >= 4
  /\ LastEvent.type = "error"

\* C2: every citation extractCitations returns carries the document_id and the
\* content of one chunk of the retrieved set it was given.
C2_CitationsFromRetrieved ==
  \A i \in DOMAIN local.citations :
    \E k \in DOMAIN local.retrievedChunks :
      /\ local.retrievedChunks[k].document_id = local.citations[i].chunk_id
      /\ local.retrievedChunks[k].content = local.citations[i].specific_content

\* an answer with markers of two files gave citations of two retrieved chunks
C2_Witness ==
  /\ Len(local.citations) >= 2
  /\ \E i, j \in DOMAIN local.citations :
       local.citations[i].chunk_id # local.citations[j].chunk_id
  /\ Len(Markers(local.finalAnswer, 0)) > Len(local.citations)

\* the model's output cannot be used: the call threw, there is no text, or the
\* text is not the JSON of an object
Unusable(resp) ==
  \/ resp.kind \in {"throw", "none"}
  \/ resp.kind = "text" /\ JSONParse(Trim(StripFences(resp.text))).type # "object"

\* C3: analyzeQuery never throws, and when the model's output cannot be used it
\* resolves to { isComplex: false } with no other field the model produces.
C3_AnalyzeNeverThrows ==
  /\ trace.analysis # "threw"
  /\ (trace.analysis = "returned" /\ Unusable(trace.analysisResp))
       => /\ local.analysis.fields \subseteq {"isComplex", "focusStandaloneOnly"}
          /\ "isComplex" \in local.analysis.fields
          /\ ~local.analysis.isComplex

\* the model answered with JSON that is no object and the assignment of
\* focusStandaloneOnly threw out of analyzeQuery
C3_Witness ==
  /\ trace.analysis = "threw"
  /\ trace.analysisResp.kind = "text"
  /\ pc = "done"
  /\ LastEvent = ErrorEvent("Internal server error")

\* C4: a blueprint fetch that fails beside fetches that succeed does not abort
\* the search: searchDocuments returns the chunks and the blueprints of the
\* documents whose fetch succeeded.
C4_PartialBlueprints ==
  (trace.bpFailed # {} /\ trace.bpFetched # {})
    => /\ trace.search = "returned"
       /\ ~trace.thrown
       /\ {local.blueprints[i].id : i \in DOMAIN local.blueprints} = trace.bpFetched

\* one of two blueprint fetches failed and the whole request failed
C4_Witness ==
  /\ trace.bpFailed # {} /\ trace.bpFetched # {}
  /\ trace.search = "rejected"
  /\ local.blueprints = <<>>
  /\ LastEvent = ErrorEvent("Internal server error")

\* C5: searchDocuments returns at most searchLimit (10) chunks, whatever the
\* strategies that filled the pool.
C5_AtMostTen == Len(local.retrievedChunks) <= searchLimit

\* the pool held more than ten distinct chunks and ten were returned
C5_Witness ==
  /\ trace.search = "returned"
  /\ Len(Dedup(local.allChunks)) > searchLimit
  /\ Len(local.retrievedChunks) = searchLimit

\* C6: with focusStandaloneOnly set and a document in the session, every chunk
\* of the pool and of the result belongs to the most recently created document
\* of the session.
C6_StandaloneOnlyLatest ==
  (local.analysis.focusStandaloneOnly /\ Len(LatestDocRows(documents, sessionId)) > 0)
    => /\ \A k \in DOMAIN local.allChunks :
            local.allChunks[k].document_id = LatestDocRows(documents, sessionId)[1].id
       /\ \A k \in DOMAIN local.retrievedChunks :
            local.retrievedChunks[k].document_id = LatestDocRows(documents, sessionId)[1].id

\* page lookup, semantic and keyword search all ran under the restriction, and
\* an older document of the session held a chunk on a requested page
C6_Witness ==
  /\ local.analysis.focusStandaloneOnly
  /\ trace.search = "returned"
  /\ Len(local.retrievedChunks) > 0
  /\ WasCalled("sql", "pageQuery") /\ WasCalled("sql", "vectorQuery")
  /\ WasCalled("sql", "keywordQuery")
  /\ \E c \in Scoped(documents, chunks, sessionId, Null) :
       /\ c.document_id # LatestDocRows(documents, sessionId)[1].id
       /\ c.page_number \in Range(local.pageNumbers)

\* the request ended after a search in which no call failed and whose pool,
\* deduplicated and cut to the limit, is empty
EmptyResult ==
  /\ pc = "done"
  /\ trace.analysis = "returned"
  /\ \A i \in FailedCalls : trace.calls[i].arg = "history"
  /\ Len(Take(Dedup(local.allChunks), searchLimit)) = 0

\* C7: on an empty pool searchDocuments returns no chunk and no blueprint
\* without a blueprint fetch and without throwing, and the request ends with
\* the one terminal event 'No relevant documents found': no generation call,
\* no exception, no row appended to the history.
C7_EmptyPool ==
  EmptyResult
    => /\ trace.search = "returned"
       /\ local.retrievedChunks = <<>> /\ local.blueprints = <<>>
       /\ ~WasCalled("sql", "blueprints")
       /\ LastEvent = ErrorEvent("No relevant documents found")
       /\ \A i \in 1..(Len(stream) - 1) : ~Terminal(stream[i])
       /\ ~WasCalled("generate", "answer")
       /\ ~trace.thrown
       /\ chat_messages = <<>>

\* the session has no chunk: the searches ran and found nothing
C7_Witness ==
  /\ EmptyResult
  /\ WasCalled("sql", "vectorQuery")
  /\ Len(stream) >= 3

\* C8: a failing insert of the user or of the assistant message is swallowed:
\* the request ends with its response event, carrying the processed answer and
\* the citations, and no error event.
C8_HistoryFailureSwallowed ==
  (\E i \in FailedCalls : trace.calls[i].arg \in {"insertUser", "insertAssistant"})
    => /\ pc = "done"
       /\ LastEvent.type = "response"
       /\ LastEvent.response = local.processedAnswer
       /\ LastEvent.citations = local.citations
       /\ \A i \in DOMAIN stream : stream[i].type # "error"
       /\ ~trace.thrown

\* the user message was stored and the insert of the assistant message failed
C8_Witness ==
  /\ \E i \in FailedCalls : trace.calls[i].arg = "insertAssistant"
  /\ Len(chat_messages) = 1
  /\ Len(local.citations) > 0
  /\ pc = "done"

\* the embed call and the chunk queries of searchDocuments
SearchCall(c) ==
  \/ c.op = "embed"
  \/ c.op = "sql" /\ c.arg \in {"pageQuery", "vectorQuery", "keywordQuery", "latestQuery"}

\* C9: when the embed call or a chunk query of searchDocuments throws, the
\* search rejects and returns no chunk list, nothing is called after the failed
\* call (no retry), the cache holds no entry for the text whose embedding
\* failed, and the request ends with one terminal error event.
C9_SearchFailurePropagates ==
  \A i \in FailedCalls :
    SearchCall(trace.calls[i])
      => /\ trace.search = "rejected"
         /\ local.retrievedChunks = <<>>
         /\ i = Len(trace.calls)
         /\ (trace.calls[i].op = "embed" => ~MapHas(queryCache, trace.calls[i].arg)
                                            /\ ~MapHas(cacheTimestamps, trace.calls[i].arg))
         /\ pc = "done"
         /\ LastEvent.type = "error"
         /\ \A j \in 1..(Len(stream) - 1) : ~Terminal(stream[j])

\* the embedding of a later sub-query failed when the pool already held chunks
C9_Witness ==
  /\ Len(trace.calls) > 0
  /\ trace.calls[Len(trace.calls)].op = "embed"
  /\ ~trace.calls[Len(trace.calls)].ok
  /\ Len(local.allChunks) > 0
  /\ pc = "done"

SameKey(a, b) == a.content = b.content /\ a.page_number = b.page_number

\* C17: the deduplication of searchDocuments keeps one chunk for each
\* (content, page_number) of the pool, whatever the document_id, and applied
\* to its own result it returns that result.
C17_DedupIdempotent ==
  /\ Dedup(Dedup(local.allChunks)) = Dedup(local.allChunks)
  /\ \A i, j \in 1..Len(Dedup(local.allChunks)) :
       SameKey(Dedup(local.allChunks)[i], Dedup(local.allChunks)[j]) => i = j
  /\ \A i \in 1..Len(local.allChunks) :
       \E j \in 1..Len(Dedup(local.allChunks)) :
         SameKey(Dedup(local.allChunks)[j], local.allChunks[i])
  /\ pc \in {"blueprints", "generate", "insert_user", "insert_assistant", "done"}
       => (trace.search = "returned"
             => local.retrievedChunks = Take(Dedup(local.allChunks), searchLimit))

\* the pool holds the same text of page 1 from two documents, and one is kept
C17_Witness ==
  /\ pc = "generate"
  /\ \E i, j \in 1..Len(local.allChunks) :
       /\ SameKey(local.allChunks[i], local.allChunks[j])
       /\ local.allChunks[i].document_id # local.allChunks[j].document_id
  /\ Len(local.retrievedChunks) < Len(local.allChunks)
  /\ \A i, j \in 1..Len(local.retrievedChunks) :
       SameKey(local.retrievedChunks[i], local.retrievedChunks[j]) => i = j

\* what the four strategies returned, in the order P, S, K, L
Pool ==
  trace.rows.pages \o trace.rows.semantic \o trace.rows.keyword \o trace.rows.latest

\* the positions of a list that hold the first occurrence of their
\* (content, page_number)
FirstSeen(all) == {i \in 1..Len(all) : \A j \in 1..(i - 1) : ~SameKey(all[j], all[i])}

\* the first n of these first occurrences, in the order of the list
FirstSeenUpTo(all, n) ==
  [k \in 1..Min2(n, Cardinality(FirstSeen(all))) |->
     all[CHOOSE i \in FirstSeen(all) : Cardinality({j \in FirstSeen(all) : j <= i}) = k]]

SearchPlaces ==
  {"scope", "pages", "embed", "vector", "keyword", "latest_doc", "latest_embed",
   "latest_query"}

\* C23: retrievedChunks is the first 10 of the first occurrences of each
\* (content, page_number) in the concatenation of what the page lookup, the
\* semantic searches, the keyword search and the latest-file search returned;
\* nothing is removed from the pool while a strategy is still to run, and
\* blueprints are fetched only for the documents of the chunks that are left.
C23_PoolThenDedup ==
  /\ pc \in SearchPlaces => (local.allChunks = Pool /\ local.retrievedChunks = <<>>)
  /\ trace.search = "returned"
       => local.retrievedChunks = FirstSeenUpTo(Pool, searchLimit)
  /\ (trace.bpFetched \cup trace.bpFailed)
       \subseteq {local.retrievedChunks[i].document_id : i \in 1..Len(local.retrievedChunks)}
  /\ \A i \in 1..Len(local.blueprints) :
       \E j \in 1..Len(local.retrievedChunks) :
         local.retrievedChunks[j].document_id = local.blueprints[i].id

\* the page lookup, the semantic search and the latest-file search all
\* returned rows, more than 10 together and some of them twice
C23_Witness ==
  /\ pc = "generate"
  /\ trace.rows.pages # <<>>
  /\ trace.rows.semantic # <<>>
  /\ trace.rows.latest # <<>>
  /\ Len(Pool) > searchLimit
  /\ Cardinality(FirstSeen(Pool)) < Len(Pool)
  /\ Len(local.retrievedChunks) = searchLimit

\* ceil(a / b) for positive integers
Ceil(a, b) == (a + b - 1) \div b

\* the analysis asks for one search per sub-query
UsesSubQueries ==
  /\ local.analysis.isComplex
  /\ "subQueries" \in local.analysis.fields
  /\ Len(local.analysis.subQueries) >= 1

\* C24: with isComplex and n >= 1 sub-queries, searchDocuments sends exactly
\* one similarity search per sub-query, each with the limit ceil(10 / n);
\* otherwise it sends exactly one, for the whole message, with the limit 10.
C24_OneSearchPerSubQuery ==
  /\ \A i \in 1..Len(trace.vector) :
       IF UsesSubQueries
       THEN /\ i <= Len(local.analysis.subQueries)
            /\ trace.vector[i].query = local.analysis.subQueries[i]
            /\ trace.vector[i].limit = Ceil(searchLimit, Len(local.analysis.subQueries))
       ELSE /\ i = 1
            /\ trace.vector[i].query = message
            /\ trace.vector[i].limit = searchLimit
  /\ trace.search = "returned"
       => Len(trace.vector) = IF UsesSubQueries THEN Len(local.analysis.subQueries) ELSE 1

\* three sub-queries were searched, each with LIMIT 3, over a session that
\* holds more than 3 chunks
C24_Witness ==
  /\ trace.search = "returned"
  /\ UsesSubQueries
  /\ Len(local.analysis.subQueries) = 3
  /\ [i \in 1..Len(trace.vector) |-> trace.vector[i].limit] = <<3, 3, 3>>
  /\ Len(trace.rows.semantic) = 9
  /\ Cardinality(Scoped(documents, chunks, sessionId, local.whereDoc)) > 3

\* the documents of the chunks searchDocuments returned
RetrievedDocuments ==
  {local.retrievedChunks[i].document_id : i \in 1..Len(local.retrievedChunks)}

\* C28: in a search with focusStandaloneOnly and isAboutLatestFile, the most
\* recent document of the scope filter and that of the latest-file search are
\* the same document, and the chunks returned all belong to one document,
\* also when a document is uploaded into the session during the search.
C28_OneLatestDocument ==
  (local.analysis.focusStandaloneOnly /\ local.analysis.isAboutLatestFile)
    => /\ (local.whereDoc # Null /\ local.latestDocId # Null)
            => local.whereDoc = local.latestDocId
       /\ trace.search = "returned" => Cardinality(RetrievedDocuments) <= 1

\* the scope filter took notes.txt, the upload inserted its document and its
\* chunk, and the latest-file search took upload.pdf: chunks of both returned
C28_Witness ==
  /\ local.analysis.focusStandaloneOnly
  /\ local.analysis.isAboutLatestFile
  /\ trace.search = "returned"
  /\ local.whereDoc = "d2"
  /\ local.latestDocId = "d4"
  /\ RetrievedDocuments = {"d2", "d4"}

\* C21: on every path of the chat request (success, no relevant documents,
\* internal failure) the stream is closed after the terminal event has been
\* enqueued, so that a client reading until end-of-stream stops reading.
C21_StreamEventuallyClosed ==
  (Len(stream) > 0 /\ Terminal(LastEvent)) ~> closed

\* the search returned no chunk: the error went out, the handler returned, and
\* the stream is still open
C21_Witness ==
  /\ pc = "done"
  /\ trace.search = "returned"
  /\ local.retrievedChunks = <<>>
  /\ LastEvent = ErrorEvent("No relevant documents found")
  /\ ~closed

(***************************************************************************)
(* Properties of the conversation context                                  *)
(***************************************************************************)
\* the rows of the session, oldest first
Chronological == SessionRows(chat_messages, sessionId)

\* the up to 6 most recent of them, oldest first
MostRecent ==
  SubSeq(Chronological, Max2(1, Len(Chronological) - historyLimit + 1), Len(Chronological))

\* the history query of the request returned its rows
HistoryRead ==
  /\ pc = "ctx_file"
  /\ trace.calls = <<[op |-> "sql", arg |-> "history", ok |-> TRUE]>>

\* C29: recentConversation lists the up to 6 most recent messages of the
\* session, oldest first, and lastAssistantMessage is the content of the most
\* recently created message of the session when its role is assistant, and
\* the empty string otherwise.
C29_ConversationContext ==
  HistoryRead =>
    /\ local.history.recentConversation
         = JoinLines([i \in 1..Len(MostRecent) |->
                        UpperRole(MostRecent[i].role) \o ": " \o MostRecent[i].content], "\n")
    /\ local.history.lastAssistantMessage
         = IF Len(Chronological) > 0 /\ Chronological[Len(Chronological)].role = "assistant"
           THEN Chronological[Len(Chronological)].content
           ELSE ""

\* a user message and the assistant's answer to it are stored: the most recent
\* message is the assistant's, and lastAssistantMessage is empty
C29_Witness ==
  /\ HistoryRead
  /\ Len(Chronological) = 2
  /\ Chronological[1].role = "user"
  /\ Chronological[2].role = "assistant"
  /\ local.history.recentConversation = "USER: message 1\nASSISTANT: message 2"
  /\ local.history.lastAssistantMessage = ""

(***************************************************************************)
(* Properties of the citations of an answer                                *)
(***************************************************************************)
SupOpen == "<sup data-citation-instance=\""

\* the reference <sup data-citation-instance="K">[N]</sup> that starts at
\* position i of s, if there is one
SupRefAt(s, i) ==
  LET a == i + Len(SupOpen)
      b == RunEnd(s, a, DigitChars)
      c == b + 3
      d == RunEnd(s, c, DigitChars)
  IN IF /\ StartsAt(s, SupOpen, i) /\ b > a /\ StartsAt(s, "\">[", b)
        /\ d > c /\ StartsAt(s, "]</sup>", d)
     THEN [ok |-> TRUE, index |-> i - 1, length |-> d + 7 - i,
           instance |-> ParseDigits(SubSeq(s, a, b - 1), 0),
           number |-> ParseDigits(SubSeq(s, c, d - 1), 0)]
     ELSE [ok |-> FALSE]

\* the well-formed references of s from position from on, in textual order
RECURSIVE SupRefs(_, _)
SupRefs(s, from) ==
  LET hits == {i \in from..Len(s) : SupRefAt(s, i).ok}
  IN IF hits = {} THEN <<>>
     ELSE <<SupRefAt(s, MinOf(hits))>>
          \o SupRefs(s, MinOf(hits) + SupRefAt(s, MinOf(hits)).length)

\* the text of s outside the spans (records with a 0-based index and a length)
Pieces(s, spans) ==
  [k \in 1..(Len(spans) + 1) |->
     Substring(s,
               IF k = 1 THEN 0 ELSE spans[k - 1].index + spans[k - 1].length,
               IF k > Len(spans) THEN Len(s) ELSE spans[k].index)]

\* s without the highlight wrappers
Unmark(s) == JoinLines(SplitOn(JoinLines(SplitOn(s, MarkOpen), ""), MarkClose), "")

Rendered == pc = "rendered"

AnswerMarkers == Markers(local.finalAnswer, 0)

\* C12: the text processResponse returns holds no marker, and holds one
\* well-formed numbered superscript for each marker of the answer, in its
\* place, whether or not a citation was produced for it.
C12_MarkersReplaced ==
  Rendered =>
    /\ Markers(local.processedAnswer, 0) = <<>>
    /\ Len(SupRefs(local.processedAnswer, 1)) = Len(AnswerMarkers)
    /\ Pieces(Unmark(local.processedAnswer), SupRefs(Unmark(local.processedAnswer), 1))
         = Pieces(local.finalAnswer, AnswerMarkers)

\* the phrase model failed, the word "citation" of the answer became a
\* highlight phrase, and the attribute name of the superscript was wrapped
C12_Witness ==
  /\ Rendered
  /\ Len(AnswerMarkers) = 1
  /\ Len(local.citations) = 1
  /\ "citation" \in Range(local.citations[1].highlight_phrases)
  /\ Includes(local.processedAnswer, "<sup data-" \o MarkOpen \o "citation" \o MarkClose)
  /\ SupRefs(local.processedAnswer, 1) = <<>>

\* the references of the rendered answer, read with the highlight wrappers set
\* aside
RenderedRefs == SupRefs(Unmark(local.processedAnswer), 1)

\* parts[0] of the k-th marker of the answer
MarkerFile(k) == SplitOn(AnswerMarkers[k].info, ", ")[1]

\* the files of the citations before the first citation of file
FilesBefore(file) ==
  {local.citations[j].source_file :
     j \in {j \in 1..Len(local.citations) :
              \A i \in 1..j : local.citations[i].source_file # file}}

CitedFiles == {local.citations[i].source_file : i \in 1..Len(local.citations)}

\* C13: markers that name the same file are rewritten with the same number, and
\* the number of a file of the citation list is its rank in the order in which
\* the files first appear in that list.
C13_NumberPerFile ==
  Rendered =>
    /\ Len(RenderedRefs) = Len(AnswerMarkers)
    /\ \A i, j \in 1..Len(AnswerMarkers) :
         MarkerFile(i) = MarkerFile(j) => RenderedRefs[i].number = RenderedRefs[j].number
    /\ \A i \in 1..Len(AnswerMarkers) :
         MarkerFile(i) \in CitedFiles
           => RenderedRefs[i].number = Cardinality(FilesBefore(MarkerFile(i))) + 1

\* report.pdf is cited first and third, notes.txt second
C13_Witness ==
  /\ Rendered
  /\ [i \in 1..Len(local.citations) |-> local.citations[i].source_file]
       = <<"report.pdf", "notes.txt", "report.pdf">>
  /\ [i \in 1..Len(RenderedRefs) |-> RenderedRefs[i].number] = <<1, 2, 1>>

HasCandidate(m) ==
  SourceChunks(local.retrievedChunks, local.blueprints, MarkerSource(m.info)) # <<>>

MatchedMarkers == SelectSeq(AnswerMarkers, HasCandidate)

MatchedBefore(k) == Len(SelectSeq(SubSeq(AnswerMarkers, 1, k - 1), HasCandidate))

\* C22: the instance identifier written on a marker that has a citation is the
\* index of that citation in the list, so that citations[identifier] is the
\* citation made for the marker that was clicked, also when other markers of
\* the answer have no candidate chunk.
C22_InstanceIsCitationIndex ==
  Rendered =>
    \A k \in 1..Len(AnswerMarkers) :
      HasCandidate(AnswerMarkers[k]) =>
        /\ k <= Len(RenderedRefs)
        /\ RenderedRefs[k].instance = MatchedBefore(k)
        /\ RenderedRefs[k].instance < Len(local.citations)
        /\ local.citations[RenderedRefs[k].instance + 1].source_file = MarkerFile(k)
        /\ local.citations[RenderedRefs[k].instance + 1].content_snippet
             = ContextSnippet(local.finalAnswer, AnswerMarkers[k])

\* the first of three markers names a file that was not retrieved: the marker
\* of notes.txt carries 1 and citations[1] is the citation of report.pdf, the
\* marker of report.pdf carries 2 and the list has no such entry
C22_Witness ==
  /\ Rendered
  /\ Len(AnswerMarkers) = 3
  /\ ~HasCandidate(AnswerMarkers[1])
  /\ Len(local.citations) = 2
  /\ MarkerFile(2) = "notes.txt"
  /\ local.citations[1].source_file = "notes.txt"
  /\ RenderedRefs[2].instance = 1
  /\ local.citations[2].source_file = "report.pdf"
  /\ RenderedRefs[3].instance = 2

\* the marker names a page: parseInt of what follows 'Page ' is a number
SpecifiesPage(m) == MarkerSource(m.info).page.isNumber

\* chunk is a retrieved chunk that the citation of marker m can have been built
\* from under the claim: its blueprint is among the blueprints and names the
\* file of the marker, and it is on the page of the marker when there is one
BuiltFrom(citation, chunk, m) ==
  /\ citation.chunk_id = chunk.document_id
  /\ citation.specific_content = chunk.content
  /\ FindBlueprint(local.blueprints, chunk.document_id) # 0
  /\ local.blueprints[FindBlueprint(local.blueprints, chunk.document_id)].source_file
       = MarkerSource(m.info).sourceFile
  /\ SpecifiesPage(m) => chunk.page_number = MarkerSource(m.info).page.n

\* C25: the citation of a marker [SOURCE: f] or [SOURCE: f, Page n] has the
\* source_file f and is built from a retrieved chunk whose document, found
\* among the blueprints, has the file name f and, when the marker names a page
\* n, whose page_number is n.
C25_CitationFromMatchingChunk ==
  pc \in {"process", "rendered"} =>
    /\ Len(local.citations) = Len(MatchedMarkers)
    /\ \A i \in 1..Len(local.citations) :
         /\ local.citations[i].source_file = MarkerSource(MatchedMarkers[i].info).sourceFile
         /\ \E k \in 1..Len(local.retrievedChunks) :
              BuiltFrom(local.citations[i], local.retrievedChunks[k], MatchedMarkers[i])

\* the marker names page 0 of report.pdf, and its citation is built from a
\* chunk of page 1
C25_Witness ==
  /\ pc = "process"
  /\ Len(AnswerMarkers) = 1
  /\ MarkerSource(AnswerMarkers[1].info) = [sourceFile |-> "report.pdf",
                                            page |-> [isNumber |-> TRUE, n |-> 0]]
  /\ Len(local.citations) = 1
  /\ local.citations[1].specific_content = "Revenue grew again in the region"
  /\ local.citations[1].page_number = [isNumber |-> TRUE, n |-> 1]

\* the candidate chunks of the marker of the i-th citation, in retrieved order
CandidatesOf(i) ==
  SourceChunks(local.retrievedChunks, local.blueprints, MarkerSource(MatchedMarkers[i].info))

\* the overlap score of the k-th candidate of the i-th citation with the
\* context snippet of its marker
CandidateScore(i, k) ==
  Score(CandidatesOf(i)[k].content, ContextSnippet(local.finalAnswer, MatchedMarkers[i]))

\* the i-th citation is built from the k-th candidate of its marker
SelectedIs(i, k) ==
  /\ local.citations[i].chunk_id = CandidatesOf(i)[k].document_id
  /\ local.citations[i].specific_content = CandidatesOf(i)[k].content
  /\ local.citations[i].page_number
       = PageOr(CandidatesOf(i)[k].page_number, MarkerSource(MatchedMarkers[i].info).page)

\* the k-th candidate scores at least as much as every candidate, and more
\* than every candidate before it
EarliestMaximal(i, k) ==
  /\ \A j \in 1..Len(CandidatesOf(i)) : CandidateScore(i, j) <= CandidateScore(i, k)
  /\ \A j \in 1..(k - 1) : CandidateScore(i, j) < CandidateScore(i, k)

\* C26: the citation of a marker is built from the candidate chunk with the
\* greatest overlap score, the earliest in retrieved order among equals, which
\* is the first candidate when every candidate scores zero; a candidate that
\* scores less than another is never the one selected.
C26_BestCandidateSelected ==
  pc \in {"process", "rendered"} =>
    /\ Len(local.citations) = Len(MatchedMarkers)
    /\ \A i \in 1..Len(local.citations) :
         \E k \in 1..Len(CandidatesOf(i)) :
           /\ SelectedIs(i, k)
           /\ EarliestMaximal(i, k)
           /\ (\A j \in 1..Len(CandidatesOf(i)) : CandidateScore(i, j) = 0) => k = 1

\* two candidates share the greatest score, the one between them scores less,
\* and the citation is built from the one of the two that was retrieved first
C26_Witness ==
  /\ pc = "process"
  /\ Len(local.citations) = 1
  /\ Len(CandidatesOf(1)) = 3
  /\ CandidateScore(1, 1) > CandidateScore(1, 2)
  /\ CandidateScore(1, 1) = CandidateScore(1, 3)
  /\ SelectedIs(1, 1)
  /\ ~SelectedIs(1, 3)

\* C27: two markers of an answer that name different files are never
\* rewritten with the same reference number, also when a marker names a file
\* for which there is no citation.
C27_DistinctFilesDistinctNumbers ==
  Rendered =>
    /\ Len(RenderedRefs) = Len(AnswerMarkers)
    /\ \A i, j \in 1..Len(AnswerMarkers) :
         MarkerFile(i) # MarkerFile(j) => RenderedRefs[i].number # RenderedRefs[j].number

\* missing.pdf has no citation and notes.txt is the first file cited: both
\* markers carry the number 1
C27_Witness ==
  /\ Rendered
  /\ Len(AnswerMarkers) = 3
  /\ MarkerFile(1) = "missing.pdf"
  /\ MarkerFile(1) \notin CitedFiles
  /\ MarkerFile(2) = "notes.txt"
  /\ Len(local.citations) = 2
  /\ local.citations[1].source_file = "notes.txt"
  /\ RenderedRefs[1].number = 1
  /\ RenderedRefs[2].number = 1
  /\ RenderedRefs[3].number = 2

(***************************************************************************)
(* Properties of the functions on texts                                    *)
(***************************************************************************)
RuleNames ==
  <<"structured_text", "dialogue", "poetry", "long_quote", "verse_structure",
    "prose_dominant", "regular_prose">>

RuleTypes ==
  <<"FULL_HIGHLIGHT", "FULL_HIGHLIGHT", "FULL_HIGHLIGHT", "FULL_HIGHLIGHT",
    "FULL_HIGHLIGHT", "PHRASE_HIGHLIGHT", "PHRASE_HIGHLIGHT">>

\* which of the seven rules the text satisfies, the last one being the default
RuleHolds(text) ==
  <<IsStructuredText(text), IsDialogue(text), IsPoetry(text), HasLongQuote(text),
    HasVerseStructure(text), IsProseDominant(text), TRUE>>

Analyzed == pc \in {"phrases", "highlight", "again", "twice"}

Occupied(content, phrase) ==
  UNION {i..(i + Len(phrase) - 1) :
           i \in PhraseHits(content, ToLowerCase(content), phrase, FALSE, 1)}

NonOverlapping(content, phrases) ==
  \A a, b \in 1..Len(phrases) :
    a # b => Occupied(content, phrases[a]) \cap Occupied(content, phrases[b]) = {}

\* C18: for PHRASE_HIGHLIGHT and phrases that do not overlap, applying
\* applyHighlighting to its own result with the same phrases gives the same
\* wrappers as applying it once, none nested in another.
C18_HighlightTwice ==
  (/\ pc = "twice"
   /\ local.analysis.type = "PHRASE_HIGHLIGHT"
   /\ ~IsFullHighlight(local.text, local.phrases, local.analysis)
   /\ NonOverlapping(local.text, local.phrases))
    => /\ local.again = local.html
       /\ ~Includes(local.again, MarkOpen \o MarkOpen)

\* one phrase of three words, highlighted twice: a wrapper inside a wrapper
C18_Witness ==
  /\ pc = "twice"
  /\ local.analysis.type = "PHRASE_HIGHLIGHT"
  /\ local.phrases = <<"notes about revenue">>
  /\ Includes(local.html, MarkOpen \o "notes about revenue" \o MarkClose)
  /\ Includes(local.again,
              MarkOpen \o MarkOpen \o "notes about revenue" \o MarkClose \o MarkClose)

Extracted ==
  pc \in {"highlight", "again", "twice"} /\ local.analysis.type = "PHRASE_HIGHLIGHT"

\* a word of the context that the fallback may return
IsFallbackWord(w) ==
  /\ w \in Range(SplitWords(local.context))
  /\ Len(w) > 4
  /\ Includes(ToLowerCase(local.text), ToLowerCase(w))

\* the first three words of the context that qualify, in their order
FallbackWords == Take(SelectSeq(SplitWords(local.context), IsFallbackWord), 3)

\* the model gave no text, or a text that is not a list of phrases
Malformed(resp) ==
  resp.kind = "none" \/ (resp.kind = "text" /\ ~Includes(resp.text, "|"))

\* C19: extractContextualPhrases never rejects, and when the model is
\* unavailable, throws or returns malformed output it resolves to the
\* fallback: at most 3 words of the context, each longer than 4 characters
\* and occurring in the chunk text.
C19_FallbackOnFailure ==
  Extracted =>
    /\ ~local.result.threw
    /\ (local.resp.kind \in {"unavailable", "throw"} \/ Malformed(local.resp))
         => local.result.phrases = FallbackWords

\* the model answered with a sentence instead of phrases: no phrase is
\* returned although the context has words that qualify
C19_Witness ==
  /\ Extracted
  /\ local.resp = [kind |-> "text", text |-> "Sorry, I cannot help with that."]
  /\ local.result = [threw |-> FALSE, phrases |-> <<>>]
  /\ Len(FallbackWords) = 3

\* the categories whose pattern matches the query
Matching(query) == {k \in 1..Len(queryIntents) : IntentMatches(k, query)}

\* C20: detectIntent returns the first category, in the order SPECIFIC_CONTENT,
\* VISUAL_DESCRIPTION, FACTUAL_LOOKUP, COMPARISON, SUMMARY, FOLLOW_UP, whose
\* pattern matches the query, and GENERAL exactly when none matches.
C20_FirstMatchingIntent ==
  pc = "intent" =>
    /\ [k \in 1..Len(queryIntents) |-> queryIntents[k].intent]
         = <<"SPECIFIC_CONTENT", "VISUAL_DESCRIPTION", "FACTUAL_LOOKUP",
             "COMPARISON", "SUMMARY", "FOLLOW_UP">>
    /\ local.intent = "GENERAL" <=> Matching(message) = {}
    /\ Matching(message) # {}
         => local.intent = queryIntents[MinOf(Matching(message))].intent
    /\ message = "describe the image" => local.intent = "VISUAL_DESCRIPTION"
    /\ message = "who is the author" => local.intent = "FACTUAL_LOOKUP"

\* "describe the image" matches VISUAL_DESCRIPTION and, by the "he" of "the",
\* FOLLOW_UP
C20_Witness ==
  /\ pc = "intent"
  /\ message = "describe the image"
  /\ Matching(message) = {2, 6}
  /\ local.intent = "VISUAL_DESCRIPTION"

(***************************************************************************)
(* Properties of the embedding cache                                       *)
(***************************************************************************)
\* C10: getCachedEmbedding returns the stored vector without a call of embed
\* exactly when an entry of the text was stored less than CACHE_TTL (5 minutes)
\* before and was not removed since; otherwise embed is called once and, when
\* it returns, its result is stored under the text at the current time and
\* returned, and the cache is left without an older entry of the text.
C10_HitIffFresh ==
  LET c == trace.last
      hit == c.embedCalls = 0 /\ ~c.threw
  IN c.op = "get"
       => /\ hit <=> (c.had /\ c.at - c.before.at < CACHE_TTL)
          /\ hit => c.value = c.before.value
          /\ ~hit => /\ c.embedCalls = 1
                     /\ c.threw => ~MapHas(queryCache, c.query)
                     /\ ~c.threw => /\ c.value = EmbedValues(c.query)
                                    /\ MapHas(queryCache, c.query)
                                    /\ MapGet(queryCache, c.query) = c.value
                                    /\ MapGet(cacheTimestamps, c.query) = c.at

\* the oldest entry of the full cache was evicted by a store and is looked up
\* again within five minutes of its own store: a miss
C10_Witness ==
  /\ trace.last.op = "get"
  /\ trace.last.query = "f1"
  /\ ~trace.last.had
  /\ trace.last.sizeBefore = cacheMaxSize
  /\ trace.last.at - FillTime(1) < CACHE_TTL
  /\ trace.last.embedCalls = 1

\* a step of the cache that is a call, and the text it was called with
CacheCallStep == trace'.calls # trace.calls

\* C11: the cache never holds more than cacheMaxSize (100) entries; a store of
\* a new text into a cache of 100 removes exactly one other entry, one whose
\* timestamp no entry undercuts, and keeps the new one; no other step removes
\* an entry of another text; a hit leaves entries and timestamps as they are.
C11_BoundedEviction ==
  [][ /\ Len(queryCache) <= cacheMaxSize /\ Len(queryCache') <= cacheMaxSize
      /\ MapKeys(cacheTimestamps') = MapKeys(queryCache')
      /\ CacheCallStep =>
           LET q       == trace'.last.query
               removed == MapKeys(queryCache) \ MapKeys(queryCache')
               isNew   == ~MapHas(queryCache, q) /\ MapHas(queryCache', q)
               isHit   == trace'.last.op = "get" /\ trace'.last.embedCalls = 0
           IN /\ (isNew /\ Len(queryCache) = cacheMaxSize)
                   => /\ Cardinality(removed) = 1
                      /\ q \notin removed
                      /\ \A r \in removed : \A k \in MapKeys(cacheTimestamps) :
                            MapGet(cacheTimestamps, r) <= MapGet(cacheTimestamps, k)
                      /\ Len(queryCache') = cacheMaxSize
              /\ ~(isNew /\ Len(queryCache) = cacheMaxSize) => removed \subseteq {q}
              /\ isHit => (queryCache' = queryCache /\ cacheTimestamps' = cacheTimestamps)
    ]_vars

\* the oldest entry f1 of the full cache was stored again, so that it is the
\* newest and still the first of the Map; the store of a new text then evicted
\* f2, the oldest
C11_Witness ==
  /\ trace.last.op = "set"
  /\ trace.last.query = "alpha"
  /\ Len(queryCache) = cacheMaxSize
  /\ MapHas(queryCache, "alpha")
  /\ MapHas(queryCache, "f1") /\ MapGet(cacheTimestamps, "f1") >= StartTime
  /\ ~MapHas(queryCache, "f2")

(***************************************************************************)
(* Properties of concurrent calls of the cache                             *)
(***************************************************************************)
Racers == {c \in 1..MaxRacers : local[c].state # "idle"}

\* C30: whatever the interleaving of concurrent getCachedEmbedding calls, a
\* call that resolves resolves to a vector embed produced for its own text; a
\* call rejects only when its own embed call rejected; the cache holds under
\* each text only vectors of that text; and the vector map and the timestamp
\* map hold the same keys. A race costs further embed calls and nothing else.
C30_RacesOnlyCostEmbeds ==
  /\ MapKeys(queryCache) = MapKeys(cacheTimestamps)
  /\ Len(queryCache) = Cardinality(MapKeys(queryCache))
  /\ Len(cacheTimestamps) = Cardinality(MapKeys(cacheTimestamps))
  /\ \A i \in 1..Len(queryCache) : queryCache[i].value.of = queryCache[i].key
  /\ \A c \in Racers :
       /\ local[c].state = "resolved" => local[c].value.of = local[c].query
       /\ (local[c].state = "resolved" /\ local[c].embedded)
            => local[c].value = VectorOf(local[c].query, c)
       /\ local[c].state = "rejected" => local[c].embedded

\* two calls for the same new text were in flight together on the full cache:
\* both called embed, both resolved to a vector of their text, the store of
\* the first evicted f1 and the cache holds the vector of the second
C30_Witness ==
  /\ \A c \in 1..2 : /\ local[c].state = "resolved"
                     /\ local[c].query = "alpha"
                     /\ local[c].embedded
  /\ local[1].value # local[2].value
  /\ Len(queryCache) = cacheMaxSize
  /\ ~MapHas(queryCache, "f1")
  /\ MapHas(queryCache, "f2")
  /\ MapGet(queryCache, "alpha") \in {local[1].value, local[2].value}

====
